---- MODULE Spec2Model ----
(***************************************************************************)
(* Credit ledger and payment lifecycle tracker of START_TEMPLATE/backend/  *)
(* shared: SupabasePaymentStore + PaymentTracker (payments/), the          *)
(* SupabaseCreditManager wrapper (credits/providers/supabase.py) and the   *)
(* StripeService webhook handlers (credits/stripe_service.py).             *)
(*                                                                         *)
(* Storage calls are the atomic steps: every tracker transition is a       *)
(* get_by_id followed by a whole-record store.update, and the server       *)
(* processes of Procs interleave between the two.  The stored procedures   *)
(* behind the ledger RPCs and the event correlator that chains tracker and *)
(* ledger calls are not part of the Python sources; they follow the        *)
(* design document.                                                        *)
(***************************************************************************)
EXTENDS Integers, Sequences, FiniteSets, TLC

\* ------------------------------------------------------------------ bounds
MaxPayments == 2
MaxTx == 2
MaxTime == 2
MaxAmount == 2
MaxDeliveries == 2
MaxPrice == 5
session_expiry_minutes == 1

Users == {"u1", "u2"}
Sessions == {"cs_1", "cs_2"}
AllProcs == {1, 2}

\* The checkout sessions the provider has created, with the metadata
\* create_package_checkout attached to them (type, user_id, total_credits).
CheckoutSessions == {"cs_1"}

\* The checkout session that starts subscription sub_1, with the metadata
\* create_subscription_checkout attached (type, user_id, credits_per_period).
SubscriptionCheckouts == {"cs_sub"}

\* Sessions whose metadata names no user or no credits.
EmptySessions == {"cs_anon", "cs_zero", "cs_neg"}

SessionMeta ==
    [s \in Sessions \cup SubscriptionCheckouts \cup EmptySessions |->
        [type |-> IF s \in {"cs_sub", "cs_neg"} THEN "subscription"
                                                ELSE "package",
         user_id |-> IF s = "cs_anon" THEN ""
                     ELSE IF s \in {"cs_1", "cs_zero"} THEN "u1" ELSE "u2",
         total_credits |-> IF s \in {"cs_1", "cs_anon"} THEN 2
                           ELSE IF s = "cs_2" THEN 1 ELSE 0,
         credits_per_period |-> IF s = "cs_sub" THEN 1
                                ELSE IF s = "cs_neg" THEN -1 ELSE 0]]

\* The invoices the provider bills and the subscriptions they belong to,
\* with the metadata create_subscription_checkout attached (user_id,
\* credits_per_period).
Invoices == {"in_1", "in_2"}

InvoiceData ==
    [inv \in Invoices |->
        [billing_reason |-> IF inv = "in_1" THEN "subscription_cycle"
                                            ELSE "subscription_create",
         subscription |-> "sub_1"]]

SubscriptionMeta ==
    [sub \in {"sub_1"} |-> [user_id |-> "u2", credits_per_period |-> 1]]

\* What a provider event is about: a checkout session or an invoice.
EventObjects == DOMAIN SessionMeta \cup Invoices

None == -1

\* ------------------------------------------------------- tracker.py enums
PENDING == "pending"
PROCESSING == "processing"
COMPLETED == "completed"
FAILED == "failed"
EXPIRED == "expired"
REFUNDED == "refunded"
PARTIALLY_REFUNDED == "partially_refunded"
CANCELLED == "cancelled"

PaymentRecordStatus ==
    {PENDING, PROCESSING, COMPLETED, FAILED, EXPIRED, REFUNDED,
     PARTIALLY_REFUNDED, CANCELLED}

VARIABLES
    use_old_schema,        \* SupabasePaymentStore._use_old_schema
    payment_transactions,  \* the payments table: sequence of database rows
    credits,               \* user_profiles.credits, per user
    credit_transactions,   \* the credit_transactions table (append-only)
    now,                   \* datetime.utcnow(), in units of minutes
    procs,                 \* the server processes of this deployment
    pc,                    \* per process: the storage call it makes next
    payment,               \* per process: the PaymentRecord held in memory
    ctx,                   \* per process: locals of the running operation
    result,                \* per process: what its last operation returned
    deliveries,            \* per session: checkout-completed events handled
    purchases              \* per session: ledger adds made for the session

vars == <<use_old_schema, payment_transactions, credits, credit_transactions,
          now, procs, pc, payment, ctx, result, deliveries, purchases>>

\* ----------------------------------------------------------- PaymentRecord
\* The in-memory dataclass; NoPayment stands for Python's None.
NoPayment ==
    [id |-> 0, user_id |-> "", amount_cents |-> 0, credits_to_add |-> 0,
     status |-> "", provider_session_id |-> "", created_at |-> None,
     expires_at |-> None, credits_added |-> FALSE,
     credit_transaction_id |-> None, refund_amount_cents |-> 0]

is_completed(p) == p.status = COMPLETED

is_pending(p) == p.status \in {PENDING, PROCESSING}

is_expired(p, t) ==
    IF p.expires_at # None /\ t > p.expires_at
    THEN TRUE
    ELSE p.status = EXPIRED

can_add_credits(p) == is_completed(p) /\ ~p.credits_added

\* PaymentRecord.from_dict: absent keys take the dataclass defaults.
from_dict(data) ==
    LET get(k, dflt) == IF k \in DOMAIN data THEN data[k] ELSE dflt
    IN [id |-> data.id,
        user_id |-> data.user_id,
        amount_cents |-> data.amount_cents,
        credits_to_add |-> data.credits_to_add,
        status |-> data.status,
        provider_session_id |-> get("provider_session_id", ""),
        created_at |-> get("created_at", None),
        expires_at |-> get("expires_at", None),
        credits_added |-> get("credits_added", FALSE),
        credit_transaction_id |-> get("credit_transaction_id", None),
        refund_amount_cents |-> get("refund_amount_cents", 0)]

\* ---------------------------------------------------- SupabasePaymentStore
\* _to_db_row: the old schema keeps only a few columns and tucks
\* credits_added and amount_cents into the metadata column.
_to_db_row(p, old) ==
    IF old
    THEN [id |-> p.id,
          user_id |-> p.user_id,
          credits_purchased |-> p.credits_to_add,
          status |-> p.status,
          stripe_session_id |-> p.provider_session_id,
          metadata |-> [credits_added |-> p.credits_added,
                        amount_cents |-> p.amount_cents]]
    ELSE [id |-> p.id,
          user_id |-> p.user_id,
          amount_cents |-> p.amount_cents,
          credits_to_add |-> p.credits_to_add,
          status |-> p.status,
          provider_session_id |-> p.provider_session_id,
          created_at |-> p.created_at,
          expires_at |-> p.expires_at,
          credits_added |-> p.credits_added,
          credit_transaction_id |-> p.credit_transaction_id,
          refund_amount_cents |-> p.refund_amount_cents]

_from_db_row(row, old) ==
    IF old
    THEN from_dict([id |-> row.id,
                    user_id |-> row.user_id,
                    amount_cents |-> row.metadata.amount_cents,
                    credits_to_add |-> row.credits_purchased,
                    status |-> row.status,
                    provider_session_id |-> row.stripe_session_id,
                    credits_added |-> row.metadata.credits_added,
                    created_at |-> row.created_at])
    ELSE from_dict(row)

\* INSERT: a column the statement does not name takes the table default
\* (created_at DEFAULT now()).
db_insert(data, t) ==
    IF "created_at" \in DOMAIN data THEN data ELSE data @@ [created_at |-> t]

\* UPDATE ... SET <columns of data>: the other columns keep their values.
db_update(row, data) ==
    [c \in DOMAIN row |-> IF c \in DOMAIN data THEN data[c] ELSE row[c]]

\* The rows a select().eq(column, value) matches.
RowIds == 1..Len(payment_transactions)

session_column(old) ==
    IF old THEN "stripe_session_id" ELSE "provider_session_id"

\* get_by_id: select * where id = payment_id limit 1
get_by_id(payment_id) ==
    IF payment_id \in RowIds
    THEN _from_db_row(payment_transactions[payment_id], use_old_schema)
    ELSE NoPayment

\* get_by_session_id: select * where <session column> = session_id limit 1.
\* The query has no ORDER BY, so any matching row may be the one returned.
session_matches(session_id) ==
    {i \in RowIds :
        payment_transactions[i][session_column(use_old_schema)] = session_id}

get_by_session_id(session_id) ==
    IF session_matches(session_id) = {}
    THEN {NoPayment}
    ELSE {_from_db_row(payment_transactions[i], use_old_schema) :
            i \in session_matches(session_id)}

\* get_pending_payments: status in (pending, processing) and
\* created_at < utcnow - older_than_minutes
get_pending_payments(older_than_minutes) ==
    {_from_db_row(payment_transactions[i], use_old_schema) :
        i \in {j \in RowIds :
                /\ payment_transactions[j].status \in {PENDING, PROCESSING}
                /\ payment_transactions[j].created_at
                       < now - older_than_minutes}}

\* ------------------------------------------------------------------- state
Idle == "idle"

\* metadata: Optional[Dict[str, Any]] = None, with the two keys the
\* admin methods put in it.
NoMetadata == [admin_id |-> "", original_transaction_id |-> None]

NoCtx ==
    [op |-> "", user |-> "", amount |-> 0, type |-> "", session |-> "",
     payment_id |-> 0, tx |-> None, pending |-> {}, count |-> 0,
     metadata |-> NoMetadata]

NoResult == [kind |-> "none"]

RecordResult(p) ==
    IF p.id = 0 THEN [kind |-> "None"] ELSE [kind |-> "record", record |-> p]

InitCommon ==
    /\ use_old_schema \in BOOLEAN
    /\ payment_transactions = <<>>
    /\ credits = [u \in Users |-> 0]
    /\ credit_transactions = <<>>
    /\ now = 0
    /\ pc = [p \in AllProcs |-> Idle]
    /\ payment = [p \in AllProcs |-> NoPayment]
    /\ ctx = [p \in AllProcs |-> NoCtx]
    /\ result = [p \in AllProcs |-> NoResult]
    /\ deliveries = [s \in EventObjects |-> 0]
    /\ purchases = [s \in EventObjects |-> 0]

Init == InitCommon /\ procs = {1}

InitConc == InitCommon /\ procs = AllProcs

\* The ledger never touches the payment table: its schema is left fixed.
InitLedger == InitConc /\ ~use_old_schema

ledger_vars == <<credits, credit_transactions>>
env_vars == <<use_old_schema, now, procs>>
ghost_vars == <<deliveries, purchases>>

\* --------------------------------------------------------- PaymentTracker
\* Where a process goes once store.update has returned: back into
\* cleanup_expired's loop, on to the next call of the event correlator, or
\* out of the transition with the record read back.
after_update(p, back) ==
    IF ctx[p].op = "cleanup_expired"
    THEN /\ pc' = [pc EXCEPT ![p] = "cleanup_loop"]
         /\ ctx' = [ctx EXCEPT ![p].count = @ + 1]
         /\ UNCHANGED result
    ELSE IF ctx[p].op = "webhook" /\ back.id # 0 /\ ctx[p].tx = None
    THEN /\ pc' = [pc EXCEPT ![p] = "wh_is_duplicate"]
         /\ UNCHANGED <<ctx, result>>
    ELSE /\ pc' = [pc EXCEPT ![p] = Idle]
         /\ ctx' = [ctx EXCEPT ![p] = NoCtx]
         /\ result' = [result EXCEPT ![p] = RecordResult(back)]

\* store.update(payment): the second storage call of every transition.
\* It writes the whole in-memory record and returns the row read back.
store_update(p) ==
    /\ pc[p] = "update"
    /\ LET id == payment[p].id
           row == db_update(payment_transactions[id],
                            _to_db_row(payment[p], use_old_schema))
       IN /\ payment_transactions' = [payment_transactions EXCEPT ![id] = row]
          /\ after_update(p, _from_db_row(row, use_old_schema))
    /\ payment' = [payment EXCEPT ![p] = NoPayment]
    /\ UNCHANGED <<ledger_vars, env_vars, ghost_vars>>

\* The first storage call of a transition: load by id, return None when
\* there is no such record, otherwise change the fields in memory and go on
\* to store.update.
load_and_change(p, payment_id, change(_)) ==
    LET loaded == get_by_id(payment_id)
    IN IF loaded.id = 0
       THEN /\ after_update(p, NoPayment)
            /\ UNCHANGED payment
       ELSE /\ payment' = [payment EXCEPT ![p] = change(loaded)]
            /\ pc' = [pc EXCEPT ![p] = "update"]
            /\ UNCHANGED <<ctx, result>>

set_processing(r) == [r EXCEPT !.status = PROCESSING]

set_completed(r) == [r EXCEPT !.status = COMPLETED]

set_credits_added(r, tx) ==
    [r EXCEPT !.credits_added = TRUE, !.credit_transaction_id = tx]

\* The failure written with the credits of the payment taken away.
set_failed_no_credits(r) ==
    [r EXCEPT !.status = FAILED, !.credits_to_add = 0]

set_failed(r) == [r EXCEPT !.status = FAILED]

set_expired(r) == [r EXCEPT !.status = EXPIRED]

set_refunded(r, amount, partial) ==
    [r EXCEPT !.status = IF partial THEN PARTIALLY_REFUNDED ELSE REFUNDED,
              !.refund_amount_cents = amount]

PaymentIds == 1..(MaxPayments + 1)

mark_processing(p, payment_id) ==
    /\ pc[p] = Idle
    /\ p \in procs
    /\ load_and_change(p, payment_id, set_processing)
    /\ UNCHANGED <<payment_transactions, ledger_vars, env_vars, ghost_vars>>

mark_completed(p, payment_id) ==
    /\ pc[p] = Idle
    /\ p \in procs
    /\ load_and_change(p, payment_id, set_completed)
    /\ UNCHANGED <<payment_transactions, ledger_vars, env_vars, ghost_vars>>

mark_credits_added(p, payment_id, tx) ==
    /\ pc[p] = Idle
    /\ p \in procs
    /\ LET change(r) == set_credits_added(r, tx)
       IN load_and_change(p, payment_id, change)
    /\ UNCHANGED <<payment_transactions, ledger_vars, env_vars, ghost_vars>>

mark_failed(p, payment_id) ==
    /\ pc[p] = Idle
    /\ p \in procs
    /\ load_and_change(p, payment_id, set_failed)
    /\ UNCHANGED <<payment_transactions, ledger_vars, env_vars, ghost_vars>>

mark_expired(p, payment_id) ==
    /\ pc[p] = Idle
    /\ p \in procs
    /\ load_and_change(p, payment_id, set_expired)
    /\ UNCHANGED <<payment_transactions, ledger_vars, env_vars, ghost_vars>>

mark_refunded(p, payment_id, amount, partial) ==
    /\ pc[p] = Idle
    /\ p \in procs
    /\ LET change(r) == set_refunded(r, amount, partial)
       IN load_and_change(p, payment_id, change)
    /\ UNCHANGED <<payment_transactions, ledger_vars, env_vars, ghost_vars>>

\* mark_completed_by_session, first storage call: look the record up by its
\* session id and return None when there is none.
mark_completed_by_session(p, session_id) ==
    /\ pc[p] = Idle
    /\ p \in procs
    /\ \E found \in get_by_session_id(session_id) :
          IF found.id = 0
          THEN /\ result' = [result EXCEPT ![p] = RecordResult(NoPayment)]
               /\ UNCHANGED <<pc, ctx>>
          ELSE /\ pc' = [pc EXCEPT ![p] = "by_session"]
               /\ ctx' = [ctx EXCEPT
                            ![p] = [NoCtx EXCEPT
                                      !.op = "mark_completed_by_session",
                                      !.session = session_id,
                                      !.payment_id = found.id]]
               /\ result' = [result EXCEPT ![p] = NoResult]
    /\ UNCHANGED <<payment_transactions, payment, ledger_vars, env_vars,
                   ghost_vars>>

\* mark_completed_by_session, then: return self.mark_completed(payment.id)
by_session_mark_completed(p) ==
    /\ pc[p] = "by_session"
    /\ load_and_change(p, ctx[p].payment_id, set_completed)
    /\ UNCHANGED <<payment_transactions, ledger_vars, env_vars, ghost_vars>>

\* create_pending_payment: a fresh uuid, status PENDING, expiry from now;
\* store.create inserts the row and returns it as read back.
create_pending_payment(p, user_id, amount_cents, credits_to_add, session_id) ==
    /\ pc[p] = Idle
    /\ p \in procs
    /\ Len(payment_transactions) < MaxPayments
    /\ LET new == [NoPayment EXCEPT
                     !.id = Len(payment_transactions) + 1,
                     !.user_id = user_id,
                     !.amount_cents = amount_cents,
                     !.credits_to_add = credits_to_add,
                     !.status = PENDING,
                     !.provider_session_id = session_id,
                     !.created_at = now,
                     !.expires_at = now + session_expiry_minutes]
           row == db_insert(_to_db_row(new, use_old_schema), now)
       IN /\ payment_transactions' = Append(payment_transactions, row)
          /\ result' = [result EXCEPT
                          ![p] = RecordResult(_from_db_row(row, use_old_schema))]
    /\ UNCHANGED <<pc, payment, ctx, ledger_vars, env_vars, ghost_vars>>

\* is_duplicate: existing and existing.credits_added
is_duplicate_of(existing) == existing.id # 0 /\ existing.credits_added

is_duplicate(p, session_id) ==
    /\ pc[p] = Idle
    /\ p \in procs
    /\ \E existing \in get_by_session_id(session_id) :
          result' = [result EXCEPT
                       ![p] = [kind |-> "bool", session |-> session_id,
                               value |-> is_duplicate_of(existing)]]
    /\ UNCHANGED <<payment_transactions, pc, payment, ctx, ledger_vars,
                   env_vars, ghost_vars>>

\* cleanup_expired, first storage call: fetch the pending payments.
cleanup_expired(p) ==
    /\ pc[p] = Idle
    /\ p \in procs
    /\ pc' = [pc EXCEPT ![p] = "cleanup_loop"]
    /\ ctx' = [ctx EXCEPT
                 ![p] = [NoCtx EXCEPT
                           !.op = "cleanup_expired",
                           !.pending =
                               get_pending_payments(session_expiry_minutes)]]
    /\ result' = [result EXCEPT ![p] = NoResult]
    /\ UNCHANGED <<payment_transactions, payment, ledger_vars, env_vars,
                   ghost_vars>>

\* cleanup_expired, loop: the next fetched payment; when it is_expired,
\* mark_expired(payment.id) loads it and count goes up once the update is
\* through.  After the last one the count is returned.
cleanup_loop(p) ==
    /\ pc[p] = "cleanup_loop"
    /\ IF ctx[p].pending = {}
       THEN /\ pc' = [pc EXCEPT ![p] = Idle]
            /\ result' = [result EXCEPT
                            ![p] = [kind |-> "count", value |-> ctx[p].count]]
            /\ ctx' = [ctx EXCEPT ![p] = NoCtx]
            /\ UNCHANGED payment
       ELSE \E r \in ctx[p].pending :
              /\ r.id = CHOOSE i \in {q.id : q \in ctx[p].pending} :
                           \A j \in {q.id : q \in ctx[p].pending} : i <= j
              /\ IF is_expired(r, now)
                 THEN LET loaded == get_by_id(r.id)
                      IN IF loaded.id = 0
                         THEN /\ ctx' = [ctx EXCEPT
                                           ![p].pending = @ \ {r},
                                           ![p].count = @ + 1]
                              /\ UNCHANGED <<pc, payment>>
                         ELSE /\ payment' = [payment EXCEPT
                                               ![p] = set_expired(loaded)]
                              /\ pc' = [pc EXCEPT ![p] = "update"]
                              /\ ctx' = [ctx EXCEPT ![p].pending = @ \ {r}]
                 ELSE /\ ctx' = [ctx EXCEPT ![p].pending = @ \ {r}]
                      /\ UNCHANGED <<pc, payment>>
              /\ UNCHANGED result
    /\ UNCHANGED <<payment_transactions, ledger_vars, env_vars, ghost_vars>>

Tick ==
    /\ now < MaxTime
    /\ now' = now + 1
    /\ UNCHANGED <<use_old_schema, procs, payment_transactions, pc, payment,
                   ctx, result, ledger_vars, ghost_vars>>

\* ------------------------------------------------- credits: stored procedures
\* deduct_user_credits / add_user_credits run inside the database as one
\* transaction: read the balance, check it, write the balance and the
\* transaction row.  The response is what the Python wrapper reads.
deduct_user_credits(balance, amount) ==
    IF balance < amount
    THEN [success |-> FALSE, error |-> "Insufficient credits",
          current_balance |-> balance]
    ELSE [success |-> TRUE, balance_before |-> balance,
          balance_after |-> balance - amount]

add_user_credits(balance, amount) ==
    [success |-> TRUE, balance_before |-> balance,
     balance_after |-> balance + amount]

\* The row the procedure appends to credit_transactions on success.
transaction_row(id, user, amount, type, data) ==
    [id |-> id, user_id |-> user, amount |-> amount,
     balance_before |-> data.balance_before,
     balance_after |-> data.balance_after, transaction_type |-> type]

\* --------------------------------------------------- credits: models.py
\* CreditTransaction(...): the pydantic model with its field constraints
\* (balance_before >= 0, balance_after >= 0) and validate_balance_after.
validate_balance_after(v, balance_before, amount) ==
    v = balance_before + amount

CreditTransaction(id, user, amount, balance_before, balance_after, type) ==
    IF /\ balance_before >= 0
       /\ balance_after >= 0
       /\ validate_balance_after(balance_after, balance_before, amount)
    THEN [kind |-> "transaction", id |-> id, user_id |-> user,
          amount |-> amount, balance_before |-> balance_before,
          balance_after |-> balance_after, transaction_type |-> type]
    ELSE [kind |-> "ValidationError"]

\* The shortage taken the wrong way round.
InsufficientCreditsError_swapped(required, available, user) ==
    [kind |-> "InsufficientCreditsError", required |-> required,
     available |-> available, user_id |-> user,
     shortage |-> available - required]

\* InsufficientCreditsError(required, available): shortage is derived.
InsufficientCreditsError(required, available, user) ==
    [kind |-> "InsufficientCreditsError", required |-> required,
     available |-> available, user_id |-> user,
     shortage |-> required - available]

ProviderError == [kind |-> "ProviderError"]

InvalidTransactionError == [kind |-> "InvalidTransactionError"]

\* except Exception as e: raise ProviderError(...)
wrap_exception(r) == IF r.kind = "ValidationError" THEN ProviderError ELSE r

\* data.get(key, default)
dict_get(data, key, dflt) == IF key \in DOMAIN data THEN data[key] ELSE dflt

\* ----------------------------------------- SupabaseCreditManager (wrapper)
\* The deduction reported with the amount unsigned.
deduct_credits_response_unsigned(user, amount, data) ==
    IF ~data.success
    THEN IF data.error = "Insufficient credits"
         THEN InsufficientCreditsError(amount,
                                       dict_get(data, "current_balance", 0),
                                       user)
         ELSE ProviderError
    ELSE wrap_exception(
             CreditTransaction(dict_get(data, "transaction_id", None), user,
                               amount,
                               dict_get(data, "balance_before", 0),
                               dict_get(data, "balance_after", 0),
                               "deduction"))

\* deduct_credits after the RPC has answered: interpret the response.
deduct_credits_response(user, amount, data) ==
    IF ~data.success
    THEN IF data.error = "Insufficient credits"
         THEN InsufficientCreditsError(amount,
                                       dict_get(data, "current_balance", 0),
                                       user)
         ELSE ProviderError
    ELSE wrap_exception(
             CreditTransaction(dict_get(data, "transaction_id", None), user,
                               -amount,
                               dict_get(data, "balance_before", 0),
                               dict_get(data, "balance_after", 0),
                               "deduction"))

\* The addition reported with the sign of a deduction.
add_credits_response_negated(user, amount, type, data) ==
    IF ~data.success
    THEN ProviderError
    ELSE wrap_exception(
             CreditTransaction(dict_get(data, "transaction_id", None), user,
                               -amount,
                               dict_get(data, "balance_before", 0),
                               dict_get(data, "balance_after", 0),
                               type))

\* add_credits after the RPC has answered: interpret the response.
add_credits_response(user, amount, type, data) ==
    IF ~data.success
    THEN ProviderError
    ELSE wrap_exception(
             CreditTransaction(dict_get(data, "transaction_id", None), user,
                               amount,
                               dict_get(data, "balance_before", 0),
                               dict_get(data, "balance_after", 0),
                               type))

\* The amount check letting zero through.
amount_is_valid_nonnegative(amount) == ~(amount < 0)

\* The amount check that precedes every storage call.
amount_is_valid(amount) == ~(amount <= 0)

\* deduct_credits up to the RPC: reject a non-positive amount, otherwise
\* send deduct_user_credits.
deduct_credits_metadata(p, user, amount, metadata) ==
    /\ pc[p] = Idle
    /\ p \in procs
    /\ IF ~amount_is_valid(amount)
       THEN /\ result' = [result EXCEPT ![p] = InvalidTransactionError]
            /\ UNCHANGED <<pc, ctx>>
       ELSE /\ pc' = [pc EXCEPT ![p] = "rpc"]
            /\ ctx' = [ctx EXCEPT
                         ![p] = [NoCtx EXCEPT !.op = "deduct_credits",
                                              !.user = user,
                                              !.amount = amount,
                                              !.type = "deduction",
                                              !.metadata = metadata]]
            /\ result' = [result EXCEPT ![p] = NoResult]
    /\ UNCHANGED <<payment_transactions, payment, ledger_vars, env_vars,
                   ghost_vars>>

\* deduct_credits(user_id, amount, description): metadata defaults to None.
deduct_credits(p, user, amount) ==
    /\ p \in procs
    /\ deduct_credits_metadata(p, user, amount, NoMetadata)

add_credits_metadata(p, user, amount, type, metadata) ==
    /\ pc[p] = Idle
    /\ p \in procs
    /\ IF ~amount_is_valid(amount)
       THEN /\ result' = [result EXCEPT ![p] = InvalidTransactionError]
            /\ UNCHANGED <<pc, ctx>>
       ELSE /\ pc' = [pc EXCEPT ![p] = "rpc"]
            /\ ctx' = [ctx EXCEPT
                         ![p] = [NoCtx EXCEPT !.op = "add_credits",
                                              !.user = user,
                                              !.amount = amount,
                                              !.type = type,
                                              !.metadata = metadata]]
            /\ result' = [result EXCEPT ![p] = NoResult]
    /\ UNCHANGED <<payment_transactions, payment, ledger_vars, env_vars,
                   ghost_vars>>

\* add_credits(user_id, amount, type, description): metadata defaults to
\* None.
add_credits(p, user, amount, type) ==
    /\ p \in procs
    /\ add_credits_metadata(p, user, amount, type, NoMetadata)

\* Every call sent to add_user_credits.
rpc_response_always_add(op, balance, amount) ==
    add_user_credits(balance, amount)

\* The procedure each wrapper method calls: deduct_credits calls
\* deduct_user_credits, add_credits calls add_user_credits.
rpc_response(op, balance, amount) ==
    IF op = "deduct_credits"
    THEN deduct_user_credits(balance, amount)
    ELSE add_user_credits(balance, amount)

\* What the procedure writes when it succeeds: the new balance and one
\* transaction row, together.
rpc_commit_metadata(user, amount, type, metadata, data) ==
    IF data.success
    THEN /\ Len(credit_transactions) < MaxTx
         /\ credits' = [credits EXCEPT ![user] = data.balance_after]
         /\ credit_transactions' =
                Append(credit_transactions,
                       transaction_row(Len(credit_transactions) + 1, user,
                                       amount, type, data)
                           @@ [metadata |-> metadata])
    ELSE UNCHANGED ledger_vars

rpc_commit(user, amount, type, data) ==
    rpc_commit_metadata(user, amount, type, NoMetadata, data)

with_transaction_id(data) ==
    IF data.success
    THEN data @@ [transaction_id |-> Len(credit_transactions) + 1]
    ELSE data

\* The database runs the procedure and the wrapper turns the response into
\* its return value or exception.
rpc_execute(p) ==
    /\ pc[p] = "rpc"
    /\ LET c == ctx[p]
           data == with_transaction_id(
                       rpc_response(c.op, credits[c.user], c.amount))
       IN /\ rpc_commit_metadata(
                 c.user,
                 IF c.op = "deduct_credits" THEN -c.amount ELSE c.amount,
                 c.type, c.metadata, data)
          /\ result' = [result EXCEPT
                          ![p] = IF c.op = "deduct_credits"
                                 THEN deduct_credits_response(c.user, c.amount,
                                                              data)
                                 ELSE add_credits_response(c.user, c.amount,
                                                           c.type, data)]
    /\ pc' = [pc EXCEPT ![p] = Idle]
    /\ ctx' = [ctx EXCEPT ![p] = NoCtx]
    /\ UNCHANGED <<payment_transactions, payment, env_vars, ghost_vars>>

AmountInputs == (-1)..MaxAmount

AddTypes == {"purchase"}

\* ------------------------------------- admin adjustments and refunds
\* user_profiles.credits INTEGER DEFAULT 0 CHECK (credits >= 0), without
\* the check.
credits_check_dropped(balance) == TRUE

\* user_profiles.credits INTEGER DEFAULT 0 CHECK (credits >= 0): the
\* database refuses any write of a negative balance.
credits_check(balance) == balance >= 0

\* adjust_user_balance: a signed change of the balance, written with its
\* transaction row unless the amount is zero or the column check refuses
\* the new balance.
adjust_user_balance(balance, amount) ==
    IF amount # 0 /\ credits_check(balance + amount)
    THEN [success |-> TRUE, balance_before |-> balance,
          balance_after |-> balance + amount]
    ELSE [success |-> FALSE, error |-> "Insufficient credits",
          current_balance |-> balance]

\* refund_user_transaction: gives amount credits back.
refund_user_transaction(balance, amount) ==
    IF amount > 0 /\ credits_check(balance + amount)
    THEN [success |-> TRUE, balance_before |-> balance,
          balance_after |-> balance + amount]
    ELSE [success |-> FALSE, error |-> "Invalid refund amount"]

\* adjust_balance / refund_transaction after the RPC has answered: any
\* failure is a ProviderError.
admin_response(user, amount, type, data) ==
    IF ~data.success
    THEN ProviderError
    ELSE wrap_exception(
             CreditTransaction(dict_get(data, "transaction_id", None), user,
                               amount,
                               dict_get(data, "balance_before", 0),
                               dict_get(data, "balance_after", 0),
                               type))

AdjustInputs == (-MaxAmount)..MaxAmount

\* The admin who makes the adjustments.
AdminId == "admin1"

\* metadata = {'admin_id': admin_id, 'reason': reason}
admin_metadata(admin_id) == [NoMetadata EXCEPT !.admin_id = admin_id]

\* {'original_transaction_id': original_transaction_id}
refund_metadata(transaction_id) ==
    [NoMetadata EXCEPT !.original_transaction_id = transaction_id]

abs(n) == IF n < 0 THEN -n ELSE n

\* CreditManager.adjust_balance, the implementation every provider
\* inherits: add_credits for a positive amount, deduct_credits otherwise.
CreditManager_adjust_balance(p, user, amount, admin_id) ==
    IF amount > 0
    THEN add_credits_metadata(p, user, amount, "admin_adjustment",
                              admin_metadata(admin_id))
    ELSE deduct_credits_metadata(p, user, abs(amount),
                                 admin_metadata(admin_id))

\* The refund recorded as a purchase.
CreditManager_refund_as_purchase(p, user, original_transaction_id, amount) ==
    /\ p \in procs
    /\ add_credits_metadata(p, user, amount, "purchase",
                            refund_metadata(original_transaction_id))

\* CreditManager.refund_transaction: add_credits with type REFUND.
CreditManager_refund_transaction(p, user, original_transaction_id, amount) ==
    /\ p \in procs
    /\ add_credits_metadata(p, user, amount, "refund",
                            refund_metadata(original_transaction_id))

\* adjust_balance up to the RPC: the amount is sent as given.
adjust_balance(p, user, amount) ==
    /\ pc[p] = Idle
    /\ p \in procs
    /\ pc' = [pc EXCEPT ![p] = "rpc_admin"]
    /\ ctx' = [ctx EXCEPT
                 ![p] = [NoCtx EXCEPT !.op = "adjust_balance",
                                      !.user = user,
                                      !.amount = amount,
                                      !.type = "admin_adjustment",
                                      !.metadata = admin_metadata(AdminId)]]
    /\ result' = [result EXCEPT ![p] = NoResult]
    /\ UNCHANGED <<payment_transactions, payment, ledger_vars, env_vars,
                   ghost_vars>>

\* refund_transaction up to the RPC.
refund_transaction(p, user, transaction_id, amount) ==
    /\ pc[p] = Idle
    /\ p \in procs
    /\ pc' = [pc EXCEPT ![p] = "rpc_admin"]
    /\ ctx' = [ctx EXCEPT
                 ![p] = [NoCtx EXCEPT !.op = "refund_transaction",
                                      !.user = user,
                                      !.amount = amount,
                                      !.tx = transaction_id,
                                      !.type = "refund",
                                      !.metadata =
                                          refund_metadata(transaction_id)]]
    /\ result' = [result EXCEPT ![p] = NoResult]
    /\ UNCHANGED <<payment_transactions, payment, ledger_vars, env_vars,
                   ghost_vars>>

\* The database runs adjust_user_balance or refund_user_transaction and
\* the wrapper turns the response into its return value or exception.
rpc_execute_admin(p) ==
    /\ pc[p] = "rpc_admin"
    /\ LET c == ctx[p]
           data == with_transaction_id(
                       IF c.op = "adjust_balance"
                       THEN adjust_user_balance(credits[c.user], c.amount)
                       ELSE refund_user_transaction(credits[c.user],
                                                    c.amount))
       IN /\ rpc_commit_metadata(c.user, c.amount, c.type, c.metadata, data)
          /\ result' = [result EXCEPT
                          ![p] = admin_response(c.user, c.amount, c.type,
                                                data)]
    /\ pc' = [pc EXCEPT ![p] = Idle]
    /\ ctx' = [ctx EXCEPT ![p] = NoCtx]
    /\ UNCHANGED <<payment_transactions, payment, env_vars, ghost_vars>>

\* ------------------------------------------- history and totals (queries)
\* transaction_type: Optional[TransactionType] = None
NoType == ""

\* .eq('user_id', user_id) and, when a type is given,
\* .eq('transaction_type', transaction_type.value)
history_filter(rows, user, type) ==
    SelectSeq(rows, LAMBDA row :
                        /\ row.user_id = user
                        /\ type = NoType \/ row.transaction_type = type)

\* .order('created_at', desc=True): the rows are kept in the order they
\* were written.
order_desc(rows) == [i \in 1..Len(rows) |-> rows[Len(rows) + 1 - i]]

\* .range(from, to): the rows at the 0-based positions from..to that exist.
range(rows, from, to) ==
    IF from + 1 > Len(rows)
    THEN <<>>
    ELSE SubSeq(rows, from + 1, IF to + 1 < Len(rows) THEN to + 1
                                                     ELSE Len(rows))

\* The offset counted from the page number itself.
offset_from_page(page, page_size) == page * page_size

\* offset = (page - 1) * page_size
offset(page, page_size) == (page - 1) * page_size

\* TransactionHistory(transactions, total_count, page, page_size, has_more)
TransactionHistory(transactions, total_count, page, page_size, has_more) ==
    [kind |-> "TransactionHistory", transactions |-> transactions,
     total_count |-> total_count, page |-> page, page_size |-> page_size,
     has_more |-> has_more]

\* get_transaction_history: one query with count='exact', each row parsed
\* into a CreditTransaction; any exception becomes a ProviderError.
transaction_history(user, page, page_size, type) ==
    LET query == order_desc(history_filter(credit_transactions, user, type))
        data == range(query, offset(page, page_size),
                      offset(page, page_size) + page_size - 1)
        count == Len(query)
        transactions ==
            [i \in 1..Len(data) |->
                CreditTransaction(data[i].id, data[i].user_id, data[i].amount,
                                  data[i].balance_before,
                                  data[i].balance_after,
                                  data[i].transaction_type)]
    IN IF \E i \in 1..Len(data) : transactions[i].kind = "ValidationError"
       THEN ProviderError
       ELSE TransactionHistory(transactions, count, page, page_size,
                               (offset(page, page_size) + page_size) < count)

get_transaction_history(p, user, page, page_size, type) ==
    /\ pc[p] = Idle
    /\ p \in procs
    /\ ctx' = [ctx EXCEPT ![p] = [NoCtx EXCEPT !.op = "get_transaction_history",
                                               !.user = user,
                                               !.type = type]]
    /\ result' = [result EXCEPT
                    ![p] = transaction_history(user, page, page_size, type)]
    /\ UNCHANGED <<payment_transactions, pc, payment, ledger_vars, env_vars,
                   ghost_vars>>

RECURSIVE sum(_)
sum(amounts) ==
    IF amounts = <<>> THEN 0 ELSE Head(amounts) + sum(Tail(amounts))

\* .select('amount').eq('user_id', user_id).lt('amount', 0)
spent_rows(user) ==
    SelectSeq(credit_transactions,
              LAMBDA row : row.user_id = user /\ row.amount < 0)

\* .select('amount').eq('user_id', user_id).gt('amount', 0)
earned_rows(user) ==
    SelectSeq(credit_transactions,
              LAMBDA row : row.user_id = user /\ row.amount > 0)

\* The amounts of the deductions summed with their sign.
total_spent_signed(user) ==
    LET data == spent_rows(user)
    IN sum([i \in 1..Len(data) |-> data[i].amount])

\* total = sum(abs(row['amount']) for row in response.data)
total_spent(user) ==
    LET data == spent_rows(user)
    IN sum([i \in 1..Len(data) |-> abs(data[i].amount)])

\* total = sum(row['amount'] for row in response.data)
total_earned(user) ==
    LET data == earned_rows(user)
    IN sum([i \in 1..Len(data) |-> data[i].amount])

get_total_spent(p, user) ==
    /\ pc[p] = Idle
    /\ p \in procs
    /\ ctx' = [ctx EXCEPT ![p] = [NoCtx EXCEPT !.op = "get_total_spent",
                                               !.user = user]]
    /\ result' = [result EXCEPT
                    ![p] = [kind |-> "int", value |-> total_spent(user)]]
    /\ UNCHANGED <<payment_transactions, pc, payment, ledger_vars, env_vars,
                   ghost_vars>>

get_total_earned(p, user) ==
    /\ pc[p] = Idle
    /\ p \in procs
    /\ ctx' = [ctx EXCEPT ![p] = [NoCtx EXCEPT !.op = "get_total_earned",
                                               !.user = user]]
    /\ result' = [result EXCEPT
                    ![p] = [kind |-> "int", value |-> total_earned(user)]]
    /\ UNCHANGED <<payment_transactions, pc, payment, ledger_vars, env_vars,
                   ghost_vars>>

\* ------------------------------------------------------------ StripeService
\* WebhookResult(success, event_type, user_id, credits_added)
WebhookResult(success, event_type, user, credits_added) ==
    [kind |-> "WebhookResult", success |-> success,
     event_type |-> event_type, user_id |-> user,
     credits_added |-> credits_added]

\* add_credits_callback(user_id, credits, 'purchase', description) -> bool:
\* the ledger's add_credits; true when it returned a transaction.
callback_success(r) == r.kind = "transaction"

\* _handle_checkout_completed: read user_id, type and total_credits from the
\* session metadata and call the callback with them; the result reports the
\* credits as added when the callback returned true.
_handle_checkout_completed(p, s) ==
    LET metadata == SessionMeta[s]
        total_credits == IF metadata.type = "subscription"
                         THEN metadata.credits_per_period
                         ELSE metadata.total_credits
        adds == /\ metadata.user_id # ""
                /\ metadata.type \in {"package", "subscription"}
                /\ total_credits > 0
        data == with_transaction_id(
                    add_user_credits(credits[metadata.user_id],
                                     total_credits))
        txn == IF amount_is_valid(total_credits)
               THEN add_credits_response(metadata.user_id, total_credits,
                                         "purchase", data)
               ELSE InvalidTransactionError
        success == callback_success(txn)
    IN IF adds
       THEN /\ rpc_commit(metadata.user_id, total_credits, "purchase", data)
            /\ purchases' = [purchases EXCEPT ![s] = @ + 1]
            /\ result' = [result EXCEPT
                            ![p] = WebhookResult(
                                       success, "checkout.session.completed",
                                       metadata.user_id,
                                       IF success THEN total_credits ELSE 0)]
       ELSE /\ UNCHANGED <<ledger_vars, purchases>>
            /\ result' = [result EXCEPT
                            ![p] = WebhookResult(
                                       metadata.user_id # "",
                                       "checkout.session.completed", "", 0)]

\* No invoice taken for the first one of its subscription.
is_initial_invoice_never(invoice) == FALSE

\* if billing_reason == 'subscription_create': the first invoice of a
\* subscription.
is_initial_invoice(invoice) == invoice.billing_reason = "subscription_create"

\* _handle_invoice_paid: the first invoice of a subscription is left to the
\* checkout handler; otherwise the subscription is fetched from the provider
\* (retrieved is false when that call raises) and its credits_per_period are
\* handed to the callback.
_handle_invoice_paid(p, inv, retrieved) ==
    LET invoice == InvoiceData[inv]
        metadata == SubscriptionMeta[invoice.subscription]
        credits_per_period == metadata.credits_per_period
        adds == /\ ~is_initial_invoice(invoice)
                /\ invoice.subscription # ""
                /\ retrieved
                /\ metadata.user_id # ""
                /\ credits_per_period > 0
        data == with_transaction_id(
                    add_user_credits(credits[metadata.user_id],
                                     credits_per_period))
        txn == IF amount_is_valid(credits_per_period)
               THEN add_credits_response(metadata.user_id, credits_per_period,
                                         "purchase", data)
               ELSE InvalidTransactionError
        success == callback_success(txn)
    IN IF adds
       THEN /\ rpc_commit(metadata.user_id, credits_per_period, "purchase",
                          data)
            /\ purchases' = [purchases EXCEPT ![inv] = @ + 1]
            /\ result' = [result EXCEPT
                            ![p] = WebhookResult(
                                       success, "invoice.paid",
                                       metadata.user_id,
                                       IF success THEN credits_per_period
                                                  ELSE 0)]
       ELSE /\ UNCHANGED <<ledger_vars, purchases>>
            /\ result' = [result EXCEPT
                            ![p] = WebhookResult(
                                       \/ is_initial_invoice(invoice)
                                       \/ invoice.subscription = ""
                                       \/ retrieved,
                                       "invoice.paid", "", 0)]

\* process_webhook: dispatch on the event type.  checkout.session.completed
\* goes to _handle_checkout_completed, invoice.paid to _handle_invoice_paid;
\* event types without a handler are acknowledged.  object is the id of the
\* checkout session or invoice the event carries.
process_webhook(p, event_type, object) ==
    /\ pc[p] = Idle
    /\ p \in procs
    /\ IF event_type = "checkout.session.completed"
       THEN /\ object \in DOMAIN SessionMeta
            /\ deliveries[object] < MaxDeliveries
            /\ deliveries' = [deliveries EXCEPT ![object] = @ + 1]
            /\ _handle_checkout_completed(p, object)
       ELSE IF event_type = "invoice.paid"
       THEN /\ object \in Invoices
            /\ deliveries[object] < MaxDeliveries
            /\ deliveries' = [deliveries EXCEPT ![object] = @ + 1]
            /\ \E retrieved \in BOOLEAN :
                  _handle_invoice_paid(p, object, retrieved)
       ELSE /\ UNCHANGED <<deliveries, ledger_vars, purchases>>
            /\ result' = [result EXCEPT
                            ![p] = WebhookResult(TRUE, event_type, "", 0)]
    /\ UNCHANGED <<payment_transactions, pc, payment, ctx, env_vars>>

\* verify_checkout_session asks the provider for the session: the call
\* fails, or the session is unpaid, or it is paid.
Verifications == {"error", "unpaid", "paid"}

\* process_missed_payment: verify the session with the provider and, when it
\* is paid, hand a session object built from the verified metadata to
\* _handle_checkout_completed.
process_missed_payment(p, session_id, verification) ==
    /\ pc[p] = Idle
    /\ p \in procs
    /\ IF verification # "paid"
       THEN /\ UNCHANGED <<ledger_vars, purchases>>
            /\ result' = [result EXCEPT
                            ![p] = WebhookResult(FALSE, "manual_recovery",
                                                 "", 0)]
       ELSE _handle_checkout_completed(p, session_id)
    /\ UNCHANGED <<payment_transactions, pc, payment, ctx, env_vars,
                   deliveries>>

EventTypes == {"checkout.session.completed", "customer.updated"}

\* ---------------------------------------------------------- event correlator
\* A verified checkout-completed event for a session: look the record up by
\* session id, mark_completed, ask is_duplicate, add the credits to the
\* ledger, mark_credits_added with the ledger transaction id.  Each storage
\* call is a step of its own.
webhook_received(p, s) ==
    /\ pc[p] = Idle
    /\ p \in procs
    /\ \E existing \in get_by_session_id(s) :
          IF existing.id = 0
          THEN /\ result' = [result EXCEPT ![p] = [kind |-> "no_record"]]
               /\ UNCHANGED <<pc, ctx>>
          ELSE /\ pc' = [pc EXCEPT ![p] = "wh_mark_completed"]
               /\ ctx' = [ctx EXCEPT
                            ![p] = [NoCtx EXCEPT
                                      !.op = "webhook",
                                      !.session = s,
                                      !.payment_id = existing.id,
                                      !.user = existing.user_id,
                                      !.amount = existing.credits_to_add]]
               /\ result' = [result EXCEPT ![p] = NoResult]
    /\ UNCHANGED <<payment_transactions, payment, ledger_vars, env_vars,
                   ghost_vars>>

wh_mark_completed(p) ==
    /\ pc[p] = "wh_mark_completed"
    /\ load_and_change(p, ctx[p].payment_id, set_completed)
    /\ UNCHANGED <<payment_transactions, ledger_vars, env_vars, ghost_vars>>

wh_is_duplicate(p) ==
    /\ pc[p] = "wh_is_duplicate"
    /\ \E existing \in get_by_session_id(ctx[p].session) :
          IF is_duplicate_of(existing)
          THEN /\ pc' = [pc EXCEPT ![p] = Idle]
               /\ ctx' = [ctx EXCEPT ![p] = NoCtx]
               /\ result' = [result EXCEPT ![p] = [kind |-> "duplicate"]]
          ELSE /\ pc' = [pc EXCEPT ![p] = "wh_add"]
               /\ UNCHANGED <<ctx, result>>
    /\ UNCHANGED <<payment_transactions, payment, ledger_vars, env_vars,
                   ghost_vars>>

wh_add(p) ==
    /\ pc[p] = "wh_add"
    /\ LET c == ctx[p]
           data == with_transaction_id(
                       add_user_credits(credits[c.user], c.amount))
           txn == IF amount_is_valid(c.amount)
                  THEN add_credits_response(c.user, c.amount, "purchase",
                                            data)
                  ELSE InvalidTransactionError
       IN /\ rpc_commit(c.user, c.amount, "purchase", data)
          /\ purchases' = [purchases EXCEPT ![c.session] = @ + 1]
          /\ IF txn.kind = "transaction"
             THEN /\ pc' = [pc EXCEPT ![p] = "wh_mark_credits_added"]
                  /\ ctx' = [ctx EXCEPT ![p].tx = txn.id]
                  /\ UNCHANGED result
             ELSE /\ pc' = [pc EXCEPT ![p] = Idle]
                  /\ ctx' = [ctx EXCEPT ![p] = NoCtx]
                  /\ result' = [result EXCEPT ![p] = txn]
    /\ UNCHANGED <<payment_transactions, payment, env_vars, deliveries>>

wh_mark_credits_added(p) ==
    /\ pc[p] = "wh_mark_credits_added"
    /\ LET change(r) == set_credits_added(r, ctx[p].tx)
       IN load_and_change(p, ctx[p].payment_id, change)
    /\ UNCHANGED <<payment_transactions, ledger_vars, env_vars, ghost_vars>>

\* The process dies between two storage calls; what it held in memory is
\* gone, what it wrote stays.
crash(p) ==
    /\ pc[p] # Idle
    /\ pc' = [pc EXCEPT ![p] = Idle]
    /\ payment' = [payment EXCEPT ![p] = NoPayment]
    /\ ctx' = [ctx EXCEPT ![p] = NoCtx]
    /\ result' = [result EXCEPT ![p] = [kind |-> "crashed"]]
    /\ UNCHANGED <<payment_transactions, ledger_vars, env_vars, ghost_vars>>

\* ---------------------------------------------------------- storage failures
\* What a method makes of it when the storage client raises inside it: the
\* payment store re-raises as RuntimeError, has_completed_payment_for_session
\* answers False, the credit manager raises ProviderError.
StoreOps ==
    {"create", "get_by_id", "get_by_session_id", "get_by_payment_id",
     "get_pending_payments", "has_completed_payment_for_session"}

client_raised(op) ==
    IF op = "has_completed_payment_for_session"
    THEN [kind |-> "bool", value |-> FALSE]
    ELSE IF op \in {"deduct_credits", "add_credits"}
    THEN ProviderError
    ELSE [kind |-> "RuntimeError"]

\* The result of a call during which the storage call op failed.
storage_failed(r, op) == r @@ [storage_failed |-> op]

\* A store method called while the backend is failing.  The tracker's
\* methods have no handler of their own, so what the store raises is what
\* their caller gets.
store_call_fails(p, op) ==
    /\ pc[p] = Idle
    /\ p \in procs
    /\ result' = [result EXCEPT ![p] = storage_failed(client_raised(op), op)]
    /\ UNCHANGED <<payment_transactions, pc, payment, ctx, ledger_vars,
                   env_vars, ghost_vars>>

\* store.update failing in the middle of a transition.
store_update_fails(p) ==
    /\ pc[p] = "update"
    /\ pc' = [pc EXCEPT ![p] = Idle]
    /\ payment' = [payment EXCEPT ![p] = NoPayment]
    /\ ctx' = [ctx EXCEPT ![p] = NoCtx]
    /\ result' = [result EXCEPT ![p] = storage_failed(client_raised("update"), "update")]
    /\ UNCHANGED <<payment_transactions, ledger_vars, env_vars, ghost_vars>>

\* The ledger RPC failing: nothing is written.
rpc_fails(p) ==
    /\ pc[p] = "rpc"
    /\ pc' = [pc EXCEPT ![p] = Idle]
    /\ result' = [result EXCEPT
                    ![p] = storage_failed(client_raised(ctx[p].op), ctx[p].op)]
    /\ ctx' = [ctx EXCEPT ![p] = NoCtx]
    /\ UNCHANGED <<payment_transactions, payment, ledger_vars, env_vars,
                   ghost_vars>>

\* A checkout-completed event whose ledger add fails: the callback does not
\* return true and _handle_checkout_completed reports what it returned.
process_webhook_add_fails(p, s) ==
    /\ pc[p] = Idle
    /\ p \in procs
    /\ deliveries[s] < MaxDeliveries
    /\ deliveries' = [deliveries EXCEPT ![s] = @ + 1]
    /\ LET metadata == SessionMeta[s]
           success == callback_success(client_raised("add_credits"))
       IN result' = [result EXCEPT
                       ![p] = storage_failed(
                                  WebhookResult(
                                      success, "checkout.session.completed",
                                      metadata.user_id,
                                      IF success THEN metadata.total_credits
                                                 ELSE 0),
                                  "add_credits")]
    /\ UNCHANGED <<payment_transactions, pc, payment, ctx, ledger_vars,
                   env_vars, purchases>>

\* ------------------------------------------------- Python float arithmetic
\* A non-negative float (IEEE-754 double) is held as the bits, least
\* significant first, of value * 2^FracBits.  Every double the pricing
\* code produces from amounts of 1/100 and more is a multiple of
\* 2^-FracBits, so the representation is exact.
FracBits == 60

\* Bits in the significand of a double.
Mantissa == 53

RECURSIVE bits_of(_)
bits_of(n) == IF n = 0 THEN <<>> ELSE <<n % 2>> \o bits_of(n \div 2)

RECURSIVE value_of(_)
value_of(bits) ==
    IF bits = <<>> THEN 0 ELSE Head(bits) + 2 * value_of(Tail(bits))

\* The n low bits of v.
to_bits(v, n) == [i \in 1..n |-> (v \div 2^(i - 1)) % 2]

zeros(n) == [i \in 1..n |-> 0]

\* Long arithmetic works on pieces of Chunk bits.
Chunk == 16

lo(bits) ==
    SubSeq(bits, 1, IF Len(bits) < Chunk THEN Len(bits) ELSE Chunk)

hi(bits) == SubSeq(bits, Chunk + 1, Len(bits))

\* Index of the leading 1 bit, 0 for zero.
top(bits) ==
    LET ones == {i \in 1..Len(bits) : bits[i] = 1}
    IN IF ones = {} THEN 0
       ELSE IF Len(bits) \in ones THEN Len(bits)
       ELSE CHOOSE i \in ones : \A j \in ones : j <= i

trim(bits) == SubSeq(bits, 1, top(bits))

bit(bits, i) == IF i \in 1..Len(bits) THEN bits[i] ELSE 0

\* float(n): an int converts exactly.
float(n) == trim(zeros(FracBits) \o bits_of(n))

RECURSIVE increment(_)
increment(bits) ==
    IF bits = <<>>
    THEN <<1>>
    ELSE LET n == Len(lo(bits))
             v == value_of(lo(bits)) + 1
         IN IF v = 2^n
            THEN zeros(n) \o increment(hi(bits))
            ELSE to_bits(v, n) \o hi(bits)

\* Round an exact result to the nearest double, ties to even.  sticky
\* tells that the exact value has non-zero bits below those given.
round_nearest_even(bits, sticky) ==
    LET h == top(bits)
        cut == h - Mantissa
    IN IF cut <= 0
       THEN trim(bits)
       ELSE LET guard == bits[cut]
                st == sticky \/ \E i \in 1..(cut - 1) : bits[i] = 1
                kept == SubSeq(bits, cut + 1, h)
                up == guard = 1 /\ (st \/ kept[1] = 1)
            IN zeros(cut) \o (IF up THEN increment(kept) ELSE kept)

\* The exact product of a float and a small int.
RECURSIVE mul_small(_, _, _)
mul_small(bits, k, carry) ==
    IF bits = <<>>
    THEN bits_of(carry)
    ELSE LET n == Len(lo(bits))
             t == value_of(lo(bits)) * k + carry
         IN to_bits(t % 2^n, n) \o mul_small(hi(bits), k, t \div 2^n)

\* x * k for a float x and an int k.
float_mul(x, k) == round_nearest_even(mul_small(x, k, 0), FALSE)

\* The first n bits after the binary point of rem / b (rem < b), last bit
\* first, by long division, and what is left of rem after them.
RECURSIVE frac_bits(_, _, _)
frac_bits(rem, b, n) ==
    IF n = 0
    THEN <<>>
    ELSE LET k == IF n < Chunk THEN n ELSE Chunk
             t == rem * 2^k
         IN frac_bits(t % b, b, n - k) \o to_bits(t \div b, k)

RECURSIVE frac_rem(_, _, _)
frac_rem(rem, b, n) ==
    IF n = 0
    THEN rem
    ELSE LET k == IF n < Chunk THEN n ELSE Chunk
         IN frac_rem((rem * 2^k) % b, b, n - k)

\* a / b for ints a >= 0, b > 0: true division, correctly rounded.
float_div(a, b) ==
    round_nearest_even(frac_bits(a % b, b, FracBits) \o bits_of(a \div b),
                       frac_rem(a % b, b, FracBits) # 0)

\* x >= y
float_ge(x, y) ==
    LET differ == {i \in 1..(Len(x) + Len(y)) : bit(x, i) # bit(y, i)}
    IN \/ differ = {}
       \/ bit(x, CHOOSE i \in differ : \A j \in differ : j <= i) = 1

RECURSIVE sub_borrow(_, _, _)
sub_borrow(x, y, borrow) ==
    IF x = <<>>
    THEN <<>>
    ELSE LET n == Len(lo(x))
             t == value_of(lo(x)) - value_of(lo(y)) - borrow
         IN to_bits(IF t < 0 THEN t + 2^n ELSE t, n)
            \o sub_borrow(hi(x), hi(y), IF t < 0 THEN 1 ELSE 0)

\* x - y for x >= y.
float_sub(x, y) == round_nearest_even(sub_borrow(x, y, 0), FALSE)

\* int(x): truncation.
int(x) == value_of(SubSeq(x, FracBits + 1, Len(x)))

\* ------------------------------------------------------- pricing: config
\* The configuration the service is loaded with: one package per price,
\* ten credits a dollar.
PackageIds == 0..MaxPrice

\* get_package returning None.
NoPackage == [id |-> None]

get_package(package_id) ==
    IF package_id = 0
    THEN NoPackage
    ELSE [id |-> package_id, credits |-> 10 * package_id,
          price_usd |-> package_id, active |-> package_id % 4 # 0]

Coupon(code, type, discount) ==
    [code |-> code, type |-> type, discount |-> discount,
     applies_to |-> "all", valid_items |-> {}, min_purchase_usd |-> 0,
     valid_from |-> None, valid_until |-> None, active |-> TRUE]

Coupons ==
    { Coupon("SAVE10", "percent", 10),
      Coupon("SAVE28", "percent", 28),
      Coupon("SAVE34", "percent", 34),
      Coupon("FREE", "percent", 100),
      [Coupon("FIVE", "fixed", 5) EXCEPT !.min_purchase_usd = 3],
      Coupon("FIFTY", "fixed", 50),
      [Coupon("EARLY", "percent", 50) EXCEPT !.valid_until = 0],
      [Coupon("LATER", "fixed", 1) EXCEPT !.valid_from = 1],
      [Coupon("ONLY2", "fixed", 2) EXCEPT !.valid_items = {2}],
      [Coupon("SUBS", "percent", 20) EXCEPT !.applies_to = "subscriptions"],
      [Coupon("GONE", "percent", 10) EXCEPT !.active = FALSE] }

\* The codes a caller may pass: the configured ones, an unknown one and
\* no code.
NoCode == ""

CouponCodes == {c.code : c \in Coupons} \cup {"NOPE", NoCode}

\* get_coupon returning None.
NoCoupon == [code |-> NoCode]

get_coupon(code) ==
    IF \E c \in Coupons : c.code = code
    THEN CHOOSE c \in Coupons : c.code = code
    ELSE NoCoupon

first_purchase_bonus ==
    [enabled |-> TRUE, bonus_percent |-> 20, max_bonus_credits |-> 30]

\* Other first_purchase_bonus settings the configuration may carry.
Promotions ==
    { first_purchase_bonus,
      [enabled |-> TRUE, bonus_percent |-> 58, max_bonus_credits |-> 30],
      [enabled |-> TRUE, bonus_percent |-> 50, max_bonus_credits |-> 10],
      [enabled |-> FALSE, bonus_percent |-> 20, max_bonus_credits |-> 30] }

\* The subscription plans: one per price, five credits a dollar each period.
SubscriptionIds == 0..MaxPrice

NoSubscription == [id |-> None]

get_subscription(subscription_id) ==
    IF subscription_id = 0
    THEN NoSubscription
    ELSE [id |-> subscription_id, credits_per_period |-> 5 * subscription_id,
          price_usd |-> subscription_id, active |-> subscription_id % 3 # 0]

\* ---------------------------------------------------------- PricingService
\* The validity check without the minimum purchase.
_is_coupon_valid_any_price(coupon, item_type, item_id, price) ==
    /\ coupon.active
    /\ ~(coupon.applies_to # "all" /\ coupon.applies_to # item_type)
    /\ ~(coupon.valid_items # {} /\ item_id \notin coupon.valid_items)
    /\ ~(coupon.valid_from # None /\ now < coupon.valid_from)
    /\ ~(coupon.valid_until # None /\ now > coupon.valid_until)

_is_coupon_valid_for_item(coupon, item_type, item_id, price) ==
    /\ coupon.active
    /\ ~(coupon.applies_to # "all" /\ coupon.applies_to # item_type)
    /\ ~(coupon.valid_items # {} /\ item_id \notin coupon.valid_items)
    /\ ~(price < coupon.min_purchase_usd)
    /\ ~(coupon.valid_from # None /\ now < coupon.valid_from)
    /\ ~(coupon.valid_until # None /\ now > coupon.valid_until)

\* price * (coupon.discount / 100) in floats; min(coupon.discount, price).
_calculate_discount(coupon, price) ==
    IF coupon.type = "percent"
    THEN float_mul(float_div(coupon.discount, 100), price)
    ELSE IF coupon.type = "fixed"
    THEN float(IF coupon.discount < price THEN coupon.discount ELSE price)
    ELSE float(0)

PriceCalculation(original, discount, final, credits_, bonus, coupon) ==
    [kind |-> "PriceCalculation", original_price |-> original,
     discount_amount |-> discount, final_price |-> final,
     credits |-> credits_, bonus_credits |-> bonus,
     total_credits |-> credits_ + bonus, coupon_applied |-> coupon]

calculate_package_price(p, package_id, coupon_code, is_first_purchase, first_bonus) ==
    /\ pc[p] = Idle
    /\ p \in procs
    /\ ctx' = [ctx EXCEPT ![p] = [op |-> "calculate_package_price",
                                  package_id |-> package_id,
                                  coupon_code |-> coupon_code,
                                  is_first_purchase |-> is_first_purchase,
                                  first_bonus |-> first_bonus]]
    /\ LET package == get_package(package_id)
       IN IF package = NoPackage
          THEN result' = [result EXCEPT ![p] = [kind |-> "None"]]
          ELSE IF ~package.active
          THEN result' = [result EXCEPT ![p] = [kind |-> "None"]]
          ELSE
            LET original_price == package.price_usd
                coupon == IF coupon_code = NoCode
                          THEN NoCoupon
                          ELSE get_coupon(coupon_code)
                applies ==
                    IF coupon = NoCoupon
                    THEN FALSE
                    ELSE _is_coupon_valid_for_item(coupon, "packages",
                                                   package_id, original_price)
                discount_amount ==
                    IF applies
                    THEN _calculate_discount(coupon, original_price)
                    ELSE float(0)
                bonus == int(float_mul(
                                 float_div(first_bonus.bonus_percent, 100),
                                 package.credits))
                bonus_credits ==
                    IF is_first_purchase /\ first_bonus.enabled
                    THEN IF bonus < first_bonus.max_bonus_credits
                         THEN bonus
                         ELSE first_bonus.max_bonus_credits
                    ELSE 0
                final_price ==
                    IF float_ge(float(original_price), discount_amount)
                    THEN float_sub(float(original_price), discount_amount)
                    ELSE float(0)
            IN result' = [result EXCEPT
                            ![p] = PriceCalculation(
                                       original_price, discount_amount,
                                       final_price, package.credits,
                                       bonus_credits,
                                       IF applies THEN coupon_code
                                                  ELSE NoCode)]
    /\ UNCHANGED <<payment_transactions, pc, payment, ledger_vars,
                   env_vars, ghost_vars>>

calculate_subscription_price(p, subscription_id, coupon_code) ==
    /\ pc[p] = Idle
    /\ p \in procs
    /\ ctx' = [ctx EXCEPT ![p] = [op |-> "calculate_subscription_price",
                                  subscription_id |-> subscription_id,
                                  coupon_code |-> coupon_code]]
    /\ LET subscription == get_subscription(subscription_id)
       IN IF subscription = NoSubscription
          THEN result' = [result EXCEPT ![p] = [kind |-> "None"]]
          ELSE IF ~subscription.active
          THEN result' = [result EXCEPT ![p] = [kind |-> "None"]]
          ELSE
            LET original_price == subscription.price_usd
                coupon == IF coupon_code = NoCode
                          THEN NoCoupon
                          ELSE get_coupon(coupon_code)
                applies ==
                    IF coupon = NoCoupon
                    THEN FALSE
                    ELSE _is_coupon_valid_for_item(coupon, "subscriptions",
                                                   subscription_id,
                                                   original_price)
                discount_amount ==
                    IF applies
                    THEN _calculate_discount(coupon, original_price)
                    ELSE float(0)
                final_price ==
                    IF float_ge(float(original_price), discount_amount)
                    THEN float_sub(float(original_price), discount_amount)
                    ELSE float(0)
            IN result' = [result EXCEPT
                            ![p] = PriceCalculation(
                                       original_price, discount_amount,
                                       final_price,
                                       subscription.credits_per_period, 0,
                                       IF applies THEN coupon_code
                                                  ELSE NoCode)]
    /\ UNCHANGED <<payment_transactions, pc, payment, ledger_vars,
                   env_vars, ghost_vars>>

\* validate_coupon(coupon_code, item_type, item_id, price)
\*     -> (is_valid, message, coupon)
Validation(is_valid, message, coupon) ==
    [kind |-> "validation", is_valid |-> is_valid, message |-> message,
     coupon |-> coupon]

validate_coupon_result(coupon_code, item_type, item_id, price) ==
    LET coupon == get_coupon(coupon_code)
    IN IF coupon = NoCoupon
       THEN Validation(FALSE, "Invalid coupon code", NoCoupon)
       ELSE IF ~coupon.active
       THEN Validation(FALSE, "This coupon is no longer active", NoCoupon)
       ELSE IF coupon.applies_to # "all" /\ coupon.applies_to # item_type
       THEN Validation(FALSE, "This coupon cannot be used for", NoCoupon)
       ELSE IF coupon.valid_items # {} /\ item_id \notin coupon.valid_items
       THEN Validation(FALSE, "This coupon is not valid for this item",
                       NoCoupon)
       ELSE IF price < coupon.min_purchase_usd
       THEN Validation(FALSE, "Minimum purchase required", NoCoupon)
       ELSE IF coupon.valid_from # None /\ now < coupon.valid_from
       THEN Validation(FALSE, "This coupon is not yet active", NoCoupon)
       ELSE IF coupon.valid_until # None /\ now > coupon.valid_until
       THEN Validation(FALSE, "This coupon has expired", NoCoupon)
       ELSE Validation(TRUE, "Coupon applied", coupon)

validate_coupon(p, coupon_code, item_type, item_id, price) ==
    /\ pc[p] = Idle
    /\ p \in procs
    /\ ctx' = [ctx EXCEPT ![p] = [op |-> "validate_coupon",
                                  coupon_code |-> coupon_code,
                                  item_type |-> item_type,
                                  item_id |-> item_id, price |-> price]]
    /\ result' = [result EXCEPT
                    ![p] = validate_coupon_result(coupon_code, item_type,
                                                  item_id, price)]
    /\ UNCHANGED <<payment_transactions, pc, payment, ledger_vars,
                   env_vars, ghost_vars>>

\* create_package_checkout: amount_cents = int(price_calc.final_price * 100)
amount_cents(price) == int(float_mul(price, 100))

\* ------------------------------------------------------------ specifications
Next ==
    \/ \E p \in AllProcs : store_update(p)
    \/ \E p \in AllProcs, id \in PaymentIds : mark_processing(p, id)
    \/ \E p \in AllProcs, id \in PaymentIds : mark_completed(p, id)
    \/ \E p \in AllProcs, id \in PaymentIds : mark_credits_added(p, id, 1)
    \/ \E p \in AllProcs, id \in PaymentIds : mark_failed(p, id)
    \/ \E p \in AllProcs, id \in PaymentIds : mark_expired(p, id)
    \/ \E p \in AllProcs, id \in PaymentIds, partial \in BOOLEAN :
          mark_refunded(p, id, 1, partial)
    \/ \E p \in AllProcs, s \in CheckoutSessions :
          create_pending_payment(p, SessionMeta[s].user_id, 1,
                                 SessionMeta[s].total_credits, s)
    \/ \E p \in AllProcs, s \in Sessions : is_duplicate(p, s)

Spec == Init /\ [][Next]_vars

NextLedger ==
    \/ \E p \in AllProcs, u \in Users, a \in AmountInputs :
          deduct_credits(p, u, a)
    \/ \E p \in AllProcs, u \in Users, a \in AmountInputs, t \in AddTypes :
          add_credits(p, u, a, t)
    \/ \E p \in AllProcs : rpc_execute(p)

SpecLedger == InitLedger /\ [][NextLedger]_vars

NextWebhook ==
    \/ Tick
    \/ \E p \in AllProcs, s \in CheckoutSessions :
          create_pending_payment(p, SessionMeta[s].user_id, 1,
                                 SessionMeta[s].total_credits, s)
    \/ \E p \in AllProcs, s \in Sessions : webhook_received(p, s)
    \/ \E p \in AllProcs : wh_mark_completed(p)
    \/ \E p \in AllProcs : store_update(p)
    \/ \E p \in AllProcs : wh_is_duplicate(p)
    \/ \E p \in AllProcs : wh_add(p)
    \/ \E p \in AllProcs : wh_mark_credits_added(p)
    \/ \E p \in AllProcs : crash(p)
    \/ \E p \in AllProcs, e \in EventTypes, s \in Sessions :
          process_webhook(p, e, s)
    \/ \E p \in AllProcs : cleanup_expired(p)
    \/ \E p \in AllProcs : cleanup_loop(p)

SpecWebhook == Init /\ [][NextWebhook]_vars

\* Concurrent deliveries of checkout-completed events, no crash.
NextRace ==
    \/ \E p \in AllProcs, s \in CheckoutSessions :
          create_pending_payment(p, SessionMeta[s].user_id, 1,
                                 SessionMeta[s].total_credits, s)
    \/ \E p \in AllProcs, s \in Sessions : webhook_received(p, s)
    \/ \E p \in AllProcs : wh_mark_completed(p)
    \/ \E p \in AllProcs : store_update(p)
    \/ \E p \in AllProcs : wh_is_duplicate(p)
    \/ \E p \in AllProcs : wh_add(p)
    \/ \E p \in AllProcs : wh_mark_credits_added(p)

SpecRace == InitConc /\ [][NextRace]_vars

\* StripeService on its own: webhook deliveries and manual recovery.
NextStripe ==
    \/ \E p \in AllProcs, e \in EventTypes, s \in Sessions :
          process_webhook(p, e, s)
    \/ \E p \in AllProcs, inv \in Invoices :
          process_webhook(p, "invoice.paid", inv)
    \/ \E p \in AllProcs, s \in Sessions, v \in Verifications :
          process_missed_payment(p, s, v)

SpecStripe == Init /\ [][NextStripe]_vars

\* Ledger and tracker calls with a storage backend that may fail.
NextFailure ==
    \/ \E p \in AllProcs, u \in Users, a \in AmountInputs :
          deduct_credits(p, u, a)
    \/ \E p \in AllProcs, u \in Users, a \in AmountInputs, t \in AddTypes :
          add_credits(p, u, a, t)
    \/ \E p \in AllProcs : rpc_execute(p)
    \/ \E p \in AllProcs : rpc_fails(p)
    \/ \E p \in AllProcs, s \in CheckoutSessions :
          create_pending_payment(p, SessionMeta[s].user_id, 1,
                                 SessionMeta[s].total_credits, s)
    \/ \E p \in AllProcs, id \in PaymentIds : mark_completed(p, id)
    \/ \E p \in AllProcs : store_update(p)
    \/ \E p \in AllProcs : store_update_fails(p)
    \/ \E p \in AllProcs, op \in StoreOps : store_call_fails(p, op)
    \/ \E p \in AllProcs, s \in Sessions : process_webhook_add_fails(p, s)

SpecFailure == Init /\ [][NextFailure]_vars

\* Accounts are independent of each other: one account is adjusted.
AdjustUsers == {"u1"}

\* The ledger with admin adjustments and refunds, two concurrent callers.
NextAdjust ==
    \/ \E p \in AllProcs, u \in AdjustUsers, a \in 1..MaxAmount :
          deduct_credits(p, u, a)
    \/ \E p \in AllProcs, u \in AdjustUsers, a \in 1..MaxAmount, t \in AddTypes :
          add_credits(p, u, a, t)
    \/ \E p \in AllProcs : rpc_execute(p)
    \/ \E p \in AllProcs, u \in AdjustUsers, a \in AdjustInputs :
          adjust_balance(p, u, a)
    \/ \E p \in AllProcs, u \in AdjustUsers, a \in AmountInputs :
          refund_transaction(p, u, 1, a)
    \/ \E p \in AllProcs : rpc_execute_admin(p)

SpecAdjust == InitLedger /\ [][NextAdjust]_vars

\* One caller at a time: the admin methods are taken one call after another.
InitAdmin == Init /\ ~use_old_schema

\* The admin methods of both implementations on one account.
NextAdmin ==
    \/ \E p \in AllProcs, u \in AdjustUsers, a \in 1..MaxAmount :
          deduct_credits(p, u, a)
    \/ \E p \in AllProcs, u \in AdjustUsers, a \in 1..MaxAmount,
          t \in AddTypes :
          add_credits(p, u, a, t)
    \/ \E p \in AllProcs : rpc_execute(p)
    \/ \E p \in AllProcs, u \in AdjustUsers, a \in AdjustInputs :
          CreditManager_adjust_balance(p, u, a, AdminId)
    \/ \E p \in AllProcs, u \in AdjustUsers, a \in AmountInputs :
          CreditManager_refund_transaction(p, u, 1, a)
    \/ \E p \in AllProcs, u \in AdjustUsers, a \in AdjustInputs :
          adjust_balance(p, u, a)
    \/ \E p \in AllProcs, u \in AdjustUsers, a \in AmountInputs :
          refund_transaction(p, u, 1, a)
    \/ \E p \in AllProcs : rpc_execute_admin(p)

SpecAdmin == InitAdmin /\ [][NextAdmin]_vars

\* Pages enough to go past the end of the longest history.
MaxPage == MaxTx + 1

HistoryTypes == {NoType, "purchase", "deduction"}

\* The ledger of two accounts and the queries on it.
NextHistory ==
    \/ \E p \in AllProcs, u \in Users, a \in 1..MaxAmount :
          deduct_credits(p, u, a)
    \/ \E p \in AllProcs, u \in Users, a \in 1..MaxAmount, t \in AddTypes :
          add_credits(p, u, a, t)
    \/ \E p \in AllProcs : rpc_execute(p)
    \/ \E p \in AllProcs, u \in Users, page \in 1..2, page_size \in 1..2,
          type \in HistoryTypes :
          get_transaction_history(p, u, page, page_size, type)
    \/ \E p \in AllProcs, u \in Users : get_total_spent(p, u)
    \/ \E p \in AllProcs, u \in Users : get_total_earned(p, u)

SpecHistory == InitAdmin /\ [][NextHistory]_vars

\* Two callers of the tracker at once: each transition is a load and a
\* write-back with the other caller's storage calls in between.
NextTracker ==
    \/ \E p \in AllProcs, s \in CheckoutSessions :
          create_pending_payment(p, SessionMeta[s].user_id, 1,
                                 SessionMeta[s].total_credits, s)
    \/ \E p \in AllProcs, id \in PaymentIds : mark_completed(p, id)
    \/ \E p \in AllProcs, id \in PaymentIds : mark_credits_added(p, id, 1)
    \/ \E p \in AllProcs : store_update(p)

SpecTracker == InitConc /\ [][NextTracker]_vars

\* cleanup_expired running while another caller completes payments.
NextCleanup ==
    \/ Tick
    \/ \E p \in AllProcs, s \in CheckoutSessions :
          create_pending_payment(p, SessionMeta[s].user_id, 1,
                                 SessionMeta[s].total_credits, s)
    \/ \E p \in AllProcs, id \in PaymentIds : mark_completed(p, id)
    \/ \E p \in AllProcs : store_update(p)
    \/ \E p \in AllProcs : cleanup_expired(p)
    \/ \E p \in AllProcs : cleanup_loop(p)

SpecCleanup == InitConc /\ [][NextCleanup]_vars

\* The invoices billed when a subscription starts.
FirstInvoices ==
    {inv \in Invoices : InvoiceData[inv].billing_reason = "subscription_create"}

\* The events of a starting subscription and of sessions without a user or
\* without credits, in any order, and manual recovery.
NextSubscription ==
    \/ \E p \in AllProcs, e \in EventTypes,
          s \in SubscriptionCheckouts \cup EmptySessions :
          process_webhook(p, e, s)
    \/ \E p \in AllProcs, inv \in FirstInvoices :
          process_webhook(p, "invoice.paid", inv)
    \/ \E p \in AllProcs, s \in CheckoutSessions \cup {"cs_zero"},
          v \in Verifications :
          process_missed_payment(p, s, v)

SpecSubscription == InitAdmin /\ [][NextSubscription]_vars

\* Every transition of the tracker, by payment id and by session id, on
\* ids and sessions with and without a record.
NextTransitions ==
    \/ \E p \in AllProcs, s \in CheckoutSessions :
          create_pending_payment(p, SessionMeta[s].user_id, 1,
                                 SessionMeta[s].total_credits, s)
    \/ \E p \in AllProcs, id \in PaymentIds : mark_processing(p, id)
    \/ \E p \in AllProcs, id \in PaymentIds : mark_completed(p, id)
    \/ \E p \in AllProcs, id \in PaymentIds : mark_credits_added(p, id, 1)
    \/ \E p \in AllProcs, id \in PaymentIds : mark_failed(p, id)
    \/ \E p \in AllProcs, id \in PaymentIds : mark_expired(p, id)
    \/ \E p \in AllProcs, id \in PaymentIds, partial \in BOOLEAN :
          mark_refunded(p, id, 1, partial)
    \/ \E p \in AllProcs, s \in Sessions : mark_completed_by_session(p, s)
    \/ \E p \in AllProcs : by_session_mark_completed(p)
    \/ \E p \in AllProcs : store_update(p)

SpecTransitions == Init /\ [][NextTransitions]_vars

\* Price calculations at different times.
NextPricing ==
    \/ Tick
    \/ \E p \in AllProcs, package_id \in PackageIds,
          coupon_code \in CouponCodes,
          is_first_purchase \in BOOLEAN :
          calculate_package_price(p, package_id, coupon_code,
                                  is_first_purchase, first_purchase_bonus)

SpecPricing == Init /\ [][NextPricing]_vars

\* Pricing never touches the payment table: its schema is left fixed.
InitPricing == Init /\ ~use_old_schema

ItemTypes == {"packages", "subscriptions"}

\* The price a coupon is validated against: the item's own.
item_price(item_type, item_id) ==
    IF item_type = "packages"
    THEN get_package(item_id).price_usd
    ELSE get_subscription(item_id).price_usd

\* Coupons tried on packages and subscriptions and through validate_coupon,
\* at different times.
NextCoupon ==
    \/ Tick
    \/ \E p \in AllProcs, package_id \in PackageIds,
          coupon_code \in CouponCodes :
          calculate_package_price(p, package_id, coupon_code, FALSE,
                                  first_purchase_bonus)
    \/ \E p \in AllProcs, subscription_id \in SubscriptionIds,
          coupon_code \in CouponCodes :
          calculate_subscription_price(p, subscription_id, coupon_code)
    \/ \E p \in AllProcs, coupon_code \in CouponCodes \ {NoCode},
          item_type \in ItemTypes, item_id \in 1..MaxPrice :
          validate_coupon(p, coupon_code, item_type, item_id,
                          item_price(item_type, item_id))

SpecCoupon == InitPricing /\ [][NextCoupon]_vars

\* The codes tried with the first-purchase bonus.
BonusCodes == {NoCode, "FIFTY", "SAVE10"}

\* Package and subscription prices under every promotion setting.
NextBonus ==
    \/ \E p \in AllProcs, package_id \in PackageIds,
          coupon_code \in BonusCodes, is_first_purchase \in BOOLEAN,
          first_bonus \in Promotions :
          calculate_package_price(p, package_id, coupon_code,
                                  is_first_purchase, first_bonus)
    \/ \E p \in AllProcs, subscription_id \in SubscriptionIds,
          coupon_code \in BonusCodes :
          calculate_subscription_price(p, subscription_id, coupon_code)

SpecBonus == Init /\ [][NextBonus]_vars

\* ------------------------------------------------------------------ claims
\* The PaymentRecord stored under id i in a payments table.
record_at(table, i) == _from_db_row(table[i], use_old_schema)

\* The sum of the signed amounts of a user's first n ledger rows.
RECURSIVE sum_amounts(_, _)
sum_amounts(user, n) ==
    IF n = 0
    THEN 0
    ELSE sum_amounts(user, n - 1)
         + (IF credit_transactions[n].user_id = user
            THEN credit_transactions[n].amount
            ELSE 0)

\* The balance a user had when ledger row n was about to be written.
balance_before_row(n) ==
    sum_amounts(credit_transactions[n].user_id, n - 1)

\* C1: once the checkout-completed event of a session has been processed by
\* StripeService.process_webhook, processing it again leaves every balance
\* as it was.
C1_ReplayLeavesBalance ==
    [][\A s \in Sessions :
          (deliveries[s] >= 1 /\ deliveries'[s] = deliveries[s] + 1)
              => credits' = credits]_vars

\* C2: with one record per session and two processes handling the session's
\* checkout-completed event concurrently, the user's balance never exceeds
\* the record's credits_to_add: the credits are added once.
C2_ConcurrentHandlersCreditOnce ==
    \A i \in RowIds :
        LET r == record_at(payment_transactions, i)
        IN Cardinality(session_matches(r.provider_session_id)) = 1
              => credits[r.user_id] <= r.credits_to_add

\* C3: the balance is the sum of the signed amounts of the account's
\* recorded transactions (initial balance 0); every recorded transaction has
\* balance_after = balance_before + amount with balance_before the balance
\* just before the call; and the transaction a call returns is the recorded
\* one and passes validate_balance_after.
C3_LedgerInvariant ==
    /\ \A u \in Users :
          credits[u] = sum_amounts(u, Len(credit_transactions))
    /\ \A n \in 1..Len(credit_transactions) :
          LET t == credit_transactions[n]
          IN /\ t.balance_after = t.balance_before + t.amount
             /\ t.balance_before = balance_before_row(n)
    /\ \A p \in AllProcs :
          /\ result[p].kind # "ProviderError"
          /\ result[p].kind = "transaction"
                => /\ result[p].id \in 1..Len(credit_transactions)
                   /\ LET t == credit_transactions[result[p].id]
                      IN /\ result[p].amount = t.amount
                         /\ result[p].balance_before = t.balance_before
                         /\ result[p].balance_after = t.balance_after
                         /\ result[p].user_id = t.user_id

C3_Witness ==
    /\ Len(credit_transactions) >= 2
    /\ \E n \in 1..Len(credit_transactions) :
          /\ credit_transactions[n].amount < 0
          /\ credit_transactions[n].balance_after > 0
    /\ \E p \in AllProcs :
          result[p].kind = "transaction" /\ result[p].amount < 0

\* Two deductions on one account are in flight and the balance covers each
\* of them alone but not both.
deduct_pending(p) == pc[p] = "rpc" /\ ctx[p].op = "deduct_credits"

covers_only_one(p, q) ==
    /\ p # q
    /\ deduct_pending(p)
    /\ deduct_pending(q)
    /\ ctx[p].user = ctx[q].user
    /\ credits[ctx[p].user] >= ctx[p].amount
    /\ credits[ctx[p].user] >= ctx[q].amount
    /\ credits[ctx[p].user] < ctx[p].amount + ctx[q].amount

\* C4: of two concurrent deductions the balance covers only one of, the
\* first to reach the database succeeds, records one deduction and leaves a
\* balance that no longer covers the other; and a deduction the balance does
\* not cover fails with InsufficientCredits and records nothing.
C4_ConcurrentDeductions ==
    [][\A p \in AllProcs :
          /\ \A q \in AllProcs :
                (covers_only_one(p, q) /\ pc'[p] = Idle)
                    => /\ result'[p].kind = "transaction"
                       /\ credits'[ctx[p].user]
                              = credits[ctx[p].user] - ctx[p].amount
                       /\ Len(credit_transactions')
                              = Len(credit_transactions) + 1
                       /\ credits'[ctx[p].user] < ctx[q].amount
                       /\ credits'[ctx[p].user] >= 0
          /\ (deduct_pending(p) /\ credits[ctx[p].user] < ctx[p].amount
                /\ pc'[p] = Idle)
                => /\ result'[p].kind = "InsufficientCreditsError"
                   /\ credit_transactions' = credit_transactions
                   /\ credits' = credits]_vars

C4_Witness ==
    \E p, q \in AllProcs :
        /\ p # q
        /\ deduct_pending(q)
        /\ result[p].kind = "transaction"
        /\ result[p].amount < 0
        /\ result[p].user_id = ctx[q].user
        /\ result[p].balance_before >= ctx[q].amount
        /\ result[p].balance_after = credits[ctx[q].user]
        /\ credits[ctx[q].user] < ctx[q].amount

C6_CreditsAddedOnlyWhenCompleted ==
    [][\A i \in RowIds :
          LET before == record_at(payment_transactions, i)
              after == record_at(payment_transactions', i)
          IN /\ (~before.credits_added /\ after.credits_added)
                    => before.status = COMPLETED
             /\ before.credits_added => after.credits_added]_vars

\* C7: a status only moves forward: never out of FAILED, EXPIRED, CANCELLED,
\* REFUNDED or PARTIALLY_REFUNDED, out of COMPLETED only to REFUNDED or
\* PARTIALLY_REFUNDED, and never from PROCESSING back to PENDING.
forward_only(from, to) ==
    \/ from = to
    \/ /\ from \notin {FAILED, EXPIRED, CANCELLED, REFUNDED,
                       PARTIALLY_REFUNDED}
       /\ from = COMPLETED => to \in {REFUNDED, PARTIALLY_REFUNDED}
       /\ from = PROCESSING => to # PENDING

C7_ForwardOnly ==
    [][\A i \in RowIds :
          forward_only(record_at(payment_transactions, i).status,
                       record_at(payment_transactions', i).status)]_vars

\* C8: whatever record the lookup returns, is_duplicate(session) is true
\* exactly when some record of that session has credits_added = true.
C8_IsDuplicateIffCredited ==
    \A s \in Sessions :
        \A existing \in get_by_session_id(s) :
            is_duplicate_of(existing)
                <=> \E i \in session_matches(s) :
                        record_at(payment_transactions, i).credits_added

\* C9: with one record per session and only the event correlator crediting
\* it, a payment that ends with credits_added = true has had its credits
\* added to the ledger exactly once, crashes and redeliveries included.
C9_CreditedOnceAfterRecovery ==
    \A i \in RowIds :
        LET r == record_at(payment_transactions, i)
        IN (/\ r.credits_added
            /\ Cardinality(session_matches(r.provider_session_id)) = 1
            /\ deliveries[r.provider_session_id] = 0)
              => purchases[r.provider_session_id] = 1

\* C10: a record that is EXPIRED and uncredited is not credited afterwards:
\* its credits_added does not become true and no ledger add is made for its
\* session, even when the session's completion event arrives.
C10_ExpiredNeverCredited ==
    [][\A i \in RowIds :
          LET before == record_at(payment_transactions, i)
              after == record_at(payment_transactions', i)
          IN (before.status = EXPIRED /\ ~before.credits_added)
                => /\ ~after.credits_added
                   /\ purchases'[before.provider_session_id]
                          = purchases[before.provider_session_id]]_vars

\* C11: the first ledger add made for a session finds a record of that
\* session that is COMPLETED and not yet credited and adds exactly its
\* credits_to_add; and a record whose credits_added becomes true is
\* COMPLETED and linked to a ledger transaction of its user for its
\* credits_to_add.
C11_CompletionOrder ==
    [][/\ \A s \in Sessions :
             (purchases[s] = 0 /\ purchases'[s] = 1)
                => \E i \in session_matches(s) :
                      LET r == record_at(payment_transactions, i)
                      IN /\ r.status = COMPLETED
                         /\ ~r.credits_added
                         /\ credits'[r.user_id]
                                = credits[r.user_id] + r.credits_to_add
       /\ \A i \in RowIds :
             LET before == record_at(payment_transactions, i)
                 after == record_at(payment_transactions', i)
             IN (~before.credits_added /\ after.credits_added)
                   => /\ after.status = COMPLETED
                      /\ after.credit_transaction_id
                             \in 1..Len(credit_transactions)
                      /\ LET t == credit_transactions[
                                      after.credit_transaction_id]
                         IN /\ t.user_id = after.user_id
                            /\ t.amount = after.credits_to_add]_vars

\* C12: no two payment records share a provider session id.
C12_OneRecordPerSession ==
    \A s \in Sessions : Cardinality(session_matches(s)) <= 1

\* C13: once mark_refunded has returned for a COMPLETED payment, the record
\* is REFUNDED or PARTIALLY_REFUNDED with the refund amount recorded, and
\* the ledger holds a refund transaction for the record's user.
C13_RefundHasLedgerEntry ==
    [][\A p \in AllProcs :
          (/\ pc[p] = "update"
           /\ pc'[p] = Idle
           /\ payment[p].status \in {REFUNDED, PARTIALLY_REFUNDED}
           /\ get_by_id(payment[p].id).status = COMPLETED)
             => /\ result'[p].kind = "record"
                /\ result'[p].record.status = payment[p].status
                /\ result'[p].record.refund_amount_cents
                       = payment[p].refund_amount_cents
                /\ \E n \in 1..Len(credit_transactions') :
                      /\ credit_transactions'[n].user_id = payment[p].user_id
                      /\ credit_transactions'[n].transaction_type = "refund"]_vars

\* C14: a session whose credits are already in the ledger gets no further
\* ledger add from process_missed_payment (a step that adds for the session
\* without being a webhook delivery).
C14_MissedPaymentAddsNothing ==
    [][\A s \in Sessions :
          (purchases[s] >= 1 /\ deliveries'[s] = deliveries[s])
              => purchases'[s] = purchases[s]]_vars

\* C15: once an invoice's credits have been granted, another delivery of
\* its invoice.paid event leaves every balance as it was.
C15_InvoiceReplayLeavesBalance ==
    [][\A inv \in Invoices :
          (purchases[inv] >= 1 /\ deliveries'[inv] = deliveries[inv] + 1)
              => credits' = credits]_vars

\* C16: a deduct_credits or add_credits call with amount <= 0 ends at once
\* with InvalidTransaction, sends nothing to storage and leaves the balance
\* and the transaction log alone; no call in flight carries a non-positive
\* amount and no recorded transaction has amount zero.
C16_InvalidAmountRejected ==
    [][/\ \A p \in AllProcs, u \in Users,
             a \in {x \in AmountInputs : x <= 0} :
             (/\ pc[p] = Idle
              /\ result'[p] # result[p]
              /\ \/ deduct_credits(p, u, a)
                 \/ \E t \in AddTypes : add_credits(p, u, a, t))
                => /\ result'[p].kind = "InvalidTransactionError"
                   /\ pc'[p] = Idle
                   /\ UNCHANGED ledger_vars
       /\ \A p \in AllProcs : pc'[p] = "rpc" => ctx'[p].amount > 0
       /\ \A n \in 1..Len(credit_transactions') :
             credit_transactions'[n].amount # 0]_vars

C16_Witness ==
    \E p \in AllProcs :
        /\ result[p].kind = "InvalidTransactionError"
        /\ Len(credit_transactions) >= 1
        /\ \E u \in Users : credits[u] > 0

\* The error results of the ledger wrapper.
LedgerErrors ==
    {"InvalidTransactionError", "InsufficientCreditsError", "ProviderError"}

C18_StorageFailureIsProviderError ==
    \A p \in AllProcs :
        "storage_failed" \in DOMAIN result[p]
            => \/ result[p].kind = "ProviderError"
               \/ /\ result[p].kind = "WebhookResult"
                  /\ ~result[p].success
                  /\ result[p].credits_added = 0

\* C19: every balance is a non-negative integer and every recorded
\* transaction has balance_before >= 0 and balance_after >= 0, whatever
\* adds, deductions, negative adjustments and refunds ran, in any
\* interleaving.
C19_BalancesNonNegative ==
    /\ \A u \in Users : credits[u] \in Nat
    /\ \A n \in 1..Len(credit_transactions) :
          /\ credit_transactions[n].balance_before >= 0
          /\ credit_transactions[n].balance_after >= 0

\* A negative adjustment went through, and another one that asked for
\* more than the balance was refused.
C19_Witness ==
    /\ \E n \in 1..Len(credit_transactions) :
          /\ credit_transactions[n].transaction_type = "admin_adjustment"
          /\ credit_transactions[n].amount < 0
    /\ \E p \in AllProcs :
          /\ result[p] = ProviderError
          /\ \E u \in Users : credits[u] = 0

\* C20: for a price p in minor units and an applied coupon, the discount is
\* p * percent / 100 for a percent coupon and the coupon value capped at p
\* for a fixed one, and the final price is max(0, p - discount), both taken
\* in minor units the way the checkout converts them.
C20_expected_discount(coupon, p) ==
    IF coupon.type = "percent"
    THEN (p * coupon.discount) \div 100
    ELSE IF 100 * coupon.discount < p THEN 100 * coupon.discount ELSE p

C20_DiscountArithmetic ==
    \A q \in AllProcs :
        (/\ result[q].kind = "PriceCalculation"
         /\ result[q].coupon_applied # NoCode
         /\ get_coupon(result[q].coupon_applied).type \in {"percent", "fixed"})
            => LET p == 100 * result[q].original_price
                   discount == C20_expected_discount(
                                   get_coupon(result[q].coupon_applied), p)
               IN /\ amount_cents(result[q].discount_amount) = discount
                  /\ amount_cents(result[q].final_price)
                         = (IF p - discount > 0 THEN p - discount ELSE 0)

\* C21: a package price on a first purchase with the promotion enabled has
\* bonus_credits = min(floor(credits * bonus_percent / 100),
\* max_bonus_credits); otherwise, and for every subscription price,
\* bonus_credits = 0; total_credits = credits + bonus_credits throughout.
C21_expected_bonus(credits_, is_first_purchase, first_bonus) ==
    IF is_first_purchase /\ first_bonus.enabled
    THEN LET bonus == (credits_ * first_bonus.bonus_percent) \div 100
         IN IF bonus < first_bonus.max_bonus_credits
            THEN bonus
            ELSE first_bonus.max_bonus_credits
    ELSE 0

C21_FirstPurchaseBonus ==
    [][\A p \in AllProcs :
          (result'[p] # result[p] /\ result'[p].kind = "PriceCalculation")
             => /\ result'[p].total_credits
                       = result'[p].credits + result'[p].bonus_credits
                /\ \A package_id \in PackageIds, coupon_code \in BonusCodes,
                      is_first_purchase \in BOOLEAN,
                      first_bonus \in Promotions :
                      calculate_package_price(p, package_id, coupon_code,
                                              is_first_purchase, first_bonus)
                         => result'[p].bonus_credits
                                = C21_expected_bonus(
                                      get_package(package_id).credits,
                                      is_first_purchase, first_bonus)
                /\ \A subscription_id \in SubscriptionIds,
                      coupon_code \in BonusCodes :
                      calculate_subscription_price(p, subscription_id,
                                                   coupon_code)
                         => /\ result'[p].bonus_credits = 0
                            /\ result'[p].total_credits
                                   = get_subscription(subscription_id)
                                         .credits_per_period]_vars

\* C22: a coupon is applied to a package or subscription price (non-zero
\* discount, coupon_applied set) exactly when it exists, is active, its
\* applies_to is 'all' or the item's kind, its allow-list is empty or holds
\* the item id, the price reaches its minimum purchase and the current time
\* lies in [valid_from, valid_until]; otherwise the price comes back
\* undiscounted; validate_coupon accepts exactly the same coupons and names
\* a condition that fails for the others.
C22_exists(code) == \E c \in Coupons : c.code = code

C22_valid(code, item_type, item_id, price) ==
    \E c \in Coupons :
        /\ c.code = code
        /\ c.active
        /\ c.applies_to \in {"all", item_type}
        /\ c.valid_items = {} \/ item_id \in c.valid_items
        /\ price >= c.min_purchase_usd
        /\ c.valid_from = None \/ c.valid_from <= now
        /\ c.valid_until = None \/ now <= c.valid_until

C22_names_failure(message, code, item_type, item_id, price) ==
    IF ~C22_exists(code)
    THEN message = "Invalid coupon code"
    ELSE LET c == CHOOSE c \in Coupons : c.code = code
         IN \/ message = "This coupon is no longer active" /\ ~c.active
            \/ /\ message = "This coupon cannot be used for"
               /\ c.applies_to \notin {"all", item_type}
            \/ /\ message = "This coupon is not valid for this item"
               /\ c.valid_items # {}
               /\ item_id \notin c.valid_items
            \/ /\ message = "Minimum purchase required"
               /\ price < c.min_purchase_usd
            \/ /\ message = "This coupon is not yet active"
               /\ c.valid_from # None
               /\ now < c.valid_from
            \/ /\ message = "This coupon has expired"
               /\ c.valid_until # None
               /\ now > c.valid_until

C22_float == [n \in 0..MaxPrice |-> float(n)]

C22_priced(r, code, item_type, item_id) ==
    IF C22_valid(code, item_type, item_id, r.original_price)
    THEN r.coupon_applied = code /\ r.discount_amount # C22_float[0]
    ELSE /\ r.coupon_applied = NoCode
         /\ r.discount_amount = C22_float[0]
         /\ r.final_price = C22_float[r.original_price]

C22_validated(r, code, item_type, item_id, price) ==
    LET valid == C22_valid(code, item_type, item_id, price)
    IN /\ r.is_valid <=> valid
       /\ valid => r.coupon.code = code
       /\ ~valid => C22_names_failure(r.message, code, item_type, item_id,
                                      price)

C22_call(p) ==
    /\ (ctx[p].op = "calculate_package_price"
        /\ result[p].kind = "PriceCalculation")
          => C22_priced(result[p], ctx[p].coupon_code, "packages",
                        ctx[p].package_id)
    /\ (ctx[p].op = "calculate_subscription_price"
        /\ result[p].kind = "PriceCalculation")
          => C22_priced(result[p], ctx[p].coupon_code, "subscriptions",
                        ctx[p].subscription_id)
    /\ ctx[p].op = "validate_coupon"
          => C22_validated(result[p], ctx[p].coupon_code, ctx[p].item_type,
                           ctx[p].item_id, ctx[p].price)

C22_CouponAppliedIffValid ==
    [][\A p \in AllProcs : now' = now => C22_call(p)']_vars

\* A coupon with a valid_from date was applied to a package price once
\* that date had come.
C22_Witness ==
    /\ now >= 1
    /\ \E p \in AllProcs :
          /\ ctx[p].op = "calculate_package_price"
          /\ result[p].kind = "PriceCalculation"
          /\ result[p].coupon_applied = "LATER"

\* C23: adjust_balance(user, a, reason, admin_id) with a non-zero signed
\* amount a changes the balance by exactly a, or fails without a change
\* when balance + a < 0, and records exactly one transaction of type
\* admin_adjustment with amount a and the admin id in its metadata, for
\* negative a as for positive a.
C23_requested(c) == IF c.op = "deduct_credits" THEN -c.amount ELSE c.amount

C23_AdjustBalance ==
    [][\A p \in AllProcs :
          (/\ pc[p] \in {"rpc", "rpc_admin"}
           /\ pc'[p] = Idle
           /\ ctx[p].metadata.admin_id # "")
             => LET c == ctx[p]
                    a == C23_requested(c)
                    balance == credits[c.user]
                IN IF a # 0 /\ balance + a >= 0
                   THEN /\ credits'[c.user] = balance + a
                        /\ Len(credit_transactions')
                               = Len(credit_transactions) + 1
                        /\ LET row == credit_transactions'[
                                          Len(credit_transactions')]
                           IN /\ row.user_id = c.user
                              /\ row.amount = a
                              /\ row.transaction_type = "admin_adjustment"
                              /\ row.metadata.admin_id = c.metadata.admin_id
                   ELSE /\ UNCHANGED ledger_vars
                        /\ result'[p].kind # "transaction"]_vars

\* C24: refund_transaction(user, original_transaction_id, amount, reason)
\* records exactly one transaction of type refund with amount +amount whose
\* metadata references original_transaction_id, and increases the balance
\* by exactly amount.
C24_RefundTransaction ==
    [][\A p \in AllProcs :
          (/\ pc[p] \in {"rpc", "rpc_admin"}
           /\ pc'[p] = Idle
           /\ ctx[p].metadata.original_transaction_id # None
           /\ ctx[p].amount > 0)
             => LET c == ctx[p]
                    balance == credits[c.user]
                    row == credit_transactions'[Len(credit_transactions')]
                IN /\ credits' = [credits EXCEPT ![c.user] = balance + c.amount]
                   /\ Len(credit_transactions')
                          = Len(credit_transactions) + 1
                   /\ SubSeq(credit_transactions', 1,
                             Len(credit_transactions)) = credit_transactions
                   /\ row.user_id = c.user
                   /\ row.amount = c.amount
                   /\ row.transaction_type = "refund"
                   /\ row.metadata.original_transaction_id
                          = c.metadata.original_transaction_id
                   /\ row.balance_after = row.balance_before + c.amount
                   /\ result'[p].kind = "transaction"
                   /\ result'[p].transaction_type = "refund"
                   /\ result'[p].amount = c.amount
                   /\ result'[p].balance_after = balance + c.amount]_vars

\* A refund was recorded after an earlier transaction of the account.
C24_Witness ==
    /\ Len(credit_transactions) = 2
    /\ credit_transactions[2].transaction_type = "refund"
    /\ credit_transactions[2].metadata.original_transaction_id = 1
    /\ credit_transactions[2].amount > 0
    /\ credits[credit_transactions[2].user_id]
           = credit_transactions[2].balance_before
                 + credit_transactions[2].amount

\* C25: get_transaction_history(user, page, page_size, type) returns, newest
\* first, the entries at positions (page-1)*page_size .. page*page_size-1 of
\* that user's transactions of that type (all types without a filter), with
\* total_count the size of that list and has_more exactly when
\* page*page_size < total_count; the pages together hold every one of those
\* transactions exactly once and never one of another user.
C25_indices(user, type) ==
    {i \in 1..Len(credit_transactions) :
        /\ credit_transactions[i].user_id = user
        /\ type = NoType \/ credit_transactions[i].transaction_type = type}

\* The 0-based position of row i in the list taken newest first.
C25_position(I, i) == Cardinality({j \in I : j > i})

C25_entries(h) ==
    {<<h.page, j>> : j \in 1..Len(h.transactions)}

C25_HistoryPages ==
    \A user \in Users, type \in HistoryTypes, page_size \in 1..MaxTx :
       LET I == C25_indices(user, type)
           h(page) == transaction_history(user, page, page_size, type)
       IN /\ \A page \in 1..MaxPage :
                /\ h(page).kind = "TransactionHistory"
                /\ h(page).total_count = Cardinality(I)
                /\ h(page).has_more <=> page * page_size < Cardinality(I)
                /\ Len(h(page).transactions)
                       = Cardinality(
                             {i \in I :
                                 C25_position(I, i)
                                     \in ((page - 1) * page_size)
                                             ..(page * page_size - 1)})
                /\ \A j \in 1..Len(h(page).transactions) :
                      LET t == h(page).transactions[j]
                      IN /\ t.user_id = user
                         /\ type = NoType \/ t.transaction_type = type
                         /\ \E i \in I :
                               /\ C25_position(I, i)
                                      = (page - 1) * page_size + j - 1
                               /\ t.id = credit_transactions[i].id
                               /\ t.amount = credit_transactions[i].amount
          /\ \A i \in I :
                Cardinality(
                    {e \in UNION {C25_entries(h(page)) : page \in 1..MaxPage} :
                        h(e[1]).transactions[e[2]].id
                            = credit_transactions[i].id}) = 1

\* The second page of a history of two transactions was fetched one entry
\* a page: it holds the older transaction and nothing follows it.
C25_Witness ==
    \E p \in AllProcs :
       /\ result[p].kind = "TransactionHistory"
       /\ result[p].page = 2
       /\ result[p].page_size = 1
       /\ result[p].total_count = 2
       /\ Len(result[p].transactions) = 1
       /\ result[p].transactions[1].id = 1
       /\ ~result[p].has_more

\* C26: get_total_spent(user) is the sum of the absolute values of that
\* user's negative transaction amounts, get_total_earned(user) the sum of
\* the positive ones, and for an account that started at zero
\* earned - spent is the current balance.
RECURSIVE C26_spent(_, _)
C26_spent(user, n) ==
    IF n = 0
    THEN 0
    ELSE C26_spent(user, n - 1)
         + (IF /\ credit_transactions[n].user_id = user
               /\ credit_transactions[n].amount < 0
            THEN -credit_transactions[n].amount
            ELSE 0)

RECURSIVE C26_earned(_, _)
C26_earned(user, n) ==
    IF n = 0
    THEN 0
    ELSE C26_earned(user, n - 1)
         + (IF /\ credit_transactions[n].user_id = user
               /\ credit_transactions[n].amount > 0
            THEN credit_transactions[n].amount
            ELSE 0)

C26_Totals ==
    \A user \in Users :
       /\ total_spent(user) = C26_spent(user, Len(credit_transactions))
       /\ total_earned(user) = C26_earned(user, Len(credit_transactions))
       /\ total_earned(user) - total_spent(user) = credits[user]
       /\ \A p \in AllProcs :
             (ctx[p].user = user /\ result[p].kind = "int")
                => /\ ctx[p].op = "get_total_spent"
                      => result[p].value = total_spent(user)
                   /\ ctx[p].op = "get_total_earned"
                      => result[p].value = total_earned(user)

\* get_total_spent answered for an account that has earned and spent.
C26_Witness ==
    \E p \in AllProcs :
       /\ ctx[p].op = "get_total_spent"
       /\ result[p].kind = "int"
       /\ result[p].value >= 1
       /\ total_earned(ctx[p].user) > result[p].value

C29_FirstPeriodOnce ==
    [][\A p \in AllProcs :
          /\ Len(credit_transactions') <= Len(credit_transactions) + 1
          /\ \A inv \in Invoices :
                (/\ InvoiceData[inv].billing_reason = "subscription_create"
                 /\ process_webhook(p, "invoice.paid", inv))
                   => UNCHANGED ledger_vars
          /\ \A s \in SubscriptionCheckouts :
                (/\ deliveries[s] = 0
                 /\ process_webhook(p, "checkout.session.completed", s))
                   => /\ credits'
                            = [credits EXCEPT
                                 ![SessionMeta[s].user_id] =
                                     @ + SessionMeta[s].credits_per_period]
                      /\ Len(credit_transactions')
                             = Len(credit_transactions) + 1
                      /\ result'[p].credits_added
                             = SessionMeta[s].credits_per_period
          /\ \A s \in DOMAIN SessionMeta :
                /\ \A e \in EventTypes \ {"checkout.session.completed"} :
                      process_webhook(p, e, s) => UNCHANGED ledger_vars
                /\ (/\ \/ SessionMeta[s].user_id = ""
                       \/ SessionMeta[s].type = "package"
                          /\ SessionMeta[s].total_credits <= 0
                       \/ SessionMeta[s].type = "subscription"
                          /\ SessionMeta[s].credits_per_period <= 0
                    /\ \/ process_webhook(p, "checkout.session.completed", s)
                       \/ \E v \in Verifications :
                             process_missed_payment(p, s, v))
                      => UNCHANGED ledger_vars
                /\ process_missed_payment(p, s, "unpaid")
                      => UNCHANGED ledger_vars]_vars

\* Both events of the first period have been delivered once and the
\* subscriber holds credits_per_period.
C29_Witness ==
    /\ deliveries["cs_sub"] = 1
    /\ deliveries["in_2"] = 1
    /\ credits[SessionMeta["cs_sub"].user_id]
           = SessionMeta["cs_sub"].credits_per_period
    /\ Len(credit_transactions) = 1

\* C30: a tracker transition (mark_processing, mark_completed,
\* mark_credits_added, mark_failed, mark_expired, mark_refunded) on a payment
\* id without a record, and mark_completed_by_session on an unknown session
\* id, returns None, writes nothing and creates no record; a transition on
\* an existing record changes only that record and leaves its user_id,
\* amount_cents, credits_to_add and provider_session_id as they were.
C30_returns_none(p) ==
    /\ result'[p] = RecordResult(NoPayment)
    /\ pc'[p] = Idle
    /\ payment_transactions' = payment_transactions

C30_identity(r) ==
    <<r.user_id, r.amount_cents, r.credits_to_add, r.provider_session_id>>

C30_TransitionsKeepIdentity ==
    [][\A p \in AllProcs :
          /\ \A id \in PaymentIds \ RowIds :
                (\/ mark_processing(p, id)
                 \/ mark_completed(p, id)
                 \/ mark_credits_added(p, id, 1)
                 \/ mark_failed(p, id)
                 \/ mark_expired(p, id)
                 \/ \E partial \in BOOLEAN : mark_refunded(p, id, 1, partial))
                   => C30_returns_none(p)
          /\ \A s \in Sessions :
                (session_matches(s) = {} /\ mark_completed_by_session(p, s))
                   => C30_returns_none(p)
          /\ (pc[p] # Idle /\ pc'[p] # pc[p])
                => /\ Len(payment_transactions') = Len(payment_transactions)
                   /\ \A i \in RowIds :
                         /\ i # payment[p].id
                               => payment_transactions'[i]
                                      = payment_transactions[i]
                         /\ C30_identity(record_at(payment_transactions', i))
                                = C30_identity(
                                      record_at(payment_transactions, i))]_vars

\* A transition has changed a record and a call on an id without a record
\* came back with None.
C30_Witness ==
    /\ \E i \in RowIds : record_at(payment_transactions, i).status # PENDING
    /\ \E p \in AllProcs : result[p] = RecordResult(NoPayment) /\ pc[p] = Idle
====
